---- MODULE Spec2Model ----
(***************************************************************************)
(* A model of the MeuTeX document pipeline: the import resolver of         *)
(* src/App.tsx (resolveLatexImports), the LaTeX-to-HTML rewriter of the    *)
(* preview (parseLatexToHtml) and the recompile handler that drives them,  *)
(* with the handlers of the dashboard and of the AI panel and the          *)
(* persistence hook of src/hooks/useProjects.ts.                           *)
(*                                                                         *)
(* Text is a sequence of lexemes.  A lexeme is a string: a command name    *)
(* ("\\input"), a delimiter ("{", "}", "$", "%", "/", "\n"), one letter of *)
(* running text or of a file name ("a", "A"), or a file extension          *)
(* (".tex", ".png").  The JavaScript string a sequence stands for is the   *)
(* concatenation of its lexemes; the regular expressions of the source     *)
(* are translated to scans over lexemes.  Where the source looks at the    *)
(* characters of a string (includes, split('/'), a property name), the     *)
(* model joins the lexemes and looks at the characters too.                *)
(***************************************************************************)
EXTENDS Integers, Sequences, FiniteSets, TLC

VARIABLES
    fileMap,          \* import resolver: file name -> FileNode (flattenProjectFiles' result)
    resolved,         \* import resolver: the result of resolveLatexImports, or NotRun
    compiledContent,  \* App state: the text handed to the preview (latexCode)
    previewAssets,    \* App state: the assets handed to the preview (assetMap)
    katexThrows,      \* the math sources on which katex.renderToString throws
    renderedHtml,     \* Preview state: the result of parseLatexToHtml, or NotRun
    previewTimer,     \* the pending setTimeout of the Preview's effect with the
                      \* props its callback closes over, or NoTimer
    projects,         \* useProjects: the list of projects
    view,             \* App state: "dashboard" or "editor"
    activeProjectId,  \* App state: the id of the open project, or NoProject
    activeFileId,     \* App state: the id of the selected file, or ""
    isCompiling,      \* App state: a recompile was started and has not published
    logs,             \* App state: the diagnostics shown in the log tab
    compileTimer,     \* the pending setTimeout of handleRecompile with what its
                      \* callback closes over, or NoTimer
    status,           \* useProjects: the sync status, "loading", "saved",
                      \* "saving" or "error"
    load,             \* useProjects: the pending fetchProjectsFromBin of the
                      \* load effect with what it settles to, or NoTimer
    saveTimer,        \* useProjects: the debounce timer of triggerSave is pending
    stored,           \* localStorage: the list written last, or NotWritten
    saveRequests,     \* the calls of saveProjectsToBin that have not settled
    aiProcessing,     \* App state: an AI request was started and has not ended
    aiRequest,        \* the pending call of processLatexWithAI with what the
                      \* rest of handleAIAction closes over, or NoTimer
    importTimer,      \* the pending setTimeout of handleImportProject with what
                      \* its callback closes over, or NoTimer
    fileReaders,      \* the FileReaders of an import that have not loaded
    created           \* the projects created so far, which stands for Date.now()

importVars == <<fileMap, resolved>>

previewVars == <<compiledContent, previewAssets, katexThrows, renderedHtml,
                 previewTimer>>

saveVars == <<status, saveTimer, stored, saveRequests>>

aiVars == <<aiProcessing, aiRequest>>

importerVars == <<importTimer, fileReaders, created>>

appVars == <<projects, view, activeProjectId, activeFileId, isCompiling, logs,
             compileTimer, saveVars, load, aiVars, importerVars>>

vars == <<importVars, previewVars, appVars>>

NotRun == [run |-> FALSE]

(***************************************************************************)
(* Sequence helpers.                                                       *)
(***************************************************************************)
Last(s) == s[Len(s)]

\* The indices at which pat occurs in s as a contiguous block.
OccursAt(s, pat, i) ==
    /\ i >= 1
    /\ i + Len(pat) - 1 <= Len(s)
    /\ \A j \in 1..Len(pat) : s[i + j - 1] = pat[j]

\* pat occurs in s as a contiguous block of lexemes.
Includes(s, pat) == \E i \in 1..(Len(s) + 1) : OccursAt(s, pat, i)

\* The JavaScript string a sequence of lexemes stands for.
RECURSIVE Join(_)
Join(name) == IF name = <<>> THEN "" ELSE Head(name) \o Join(Tail(name))

\* text.includes(pat) on the strings the two sequences stand for, character
\* by character.
StringIncludes(text, pat) ==
    LET a == Join(text)
        b == Join(pat)
    IN  \E i \in 0..(Len(a) - Len(b)) : SubSeq(a, i + 1, i + Len(b)) = b

\* Number of (possibly overlapping) occurrences of pat in s.
Count(s, pat) == Cardinality({i \in 1..Len(s) : OccursAt(s, pat, i)})

\* The least and the greatest element of a set of indices, 0 when empty.
MinOf(S) ==
    CHOOSE least \in
      {IF T = {} THEN 0 ELSE CHOOSE k \in T : \A m \in T : k <= m : T \in {S}} : TRUE

MaxOf(S) ==
    CHOOSE greatest \in
      {IF T = {} THEN 0 ELSE CHOOSE k \in T : \A m \in T : k >= m : T \in {S}} : TRUE

\* Number of occurrences of the lexeme tok in s.
CountLexeme(s, tok) == Cardinality({i \in 1..Len(s) : s[i] = tok})

\* Smallest index k >= i with s[k] = tok, or 0.
IndexFrom(s, tok, i) == MinOf({k \in i..Len(s) : s[k] = tok})

\* Largest index k with s[k] = tok, or 0.
LastIndexOf(s, tok) == MaxOf({k \in 1..Len(s) : s[k] = tok})

\* Smallest index k >= i at which pat occurs in s, or 0.
NextOccurrence(s, pat, i) == MinOf({k \in i..Len(s) : OccursAt(s, pat, k)})

(***************************************************************************)
(* resolveLatexImports, src/App.tsx:217-235.                               *)
(***************************************************************************)
ImportCommands == {"\\input", "\\include"}

\* The expression with a greedy /\{(.+)\}/ argument: the match runs to the
\* last closing brace of the text.
ImportMatchEndGreedy(s, i) ==
    IF /\ s[i] \in ImportCommands
       /\ i + 1 <= Len(s)
       /\ s[i + 1] = "{"
    THEN LET k == LastIndexOf(s, "}")
         IN  IF k > i + 2 THEN k ELSE 0
    ELSE 0

\* /\\(?:input|include)\{([^}]+)\}/ tried at index i: the index of the
\* closing brace of the match, or 0 when the expression does not match there.
ImportMatchEnd(s, i) ==
    IF /\ s[i] \in ImportCommands
       /\ i + 1 <= Len(s)
       /\ s[i + 1] = "{"
    THEN LET k == IndexFrom(s, "}", i + 2)
         IN  IF k > i + 2 THEN k ELSE 0
    ELSE 0

\* importPath.split('/').pop() || importPath: what follows the last "/" of
\* the string, which may lie inside a lexeme ("<br/>", "</strong>") when an
\* earlier stage has rewritten a part of the path.
Basename(path) ==
    LET AfterSlash(lexeme) ==
          SubSeq(lexeme,
                 MaxOf({i \in 1..Len(lexeme) : SubSeq(lexeme, i, i) = "/"}) + 1,
                 Len(lexeme))
        k      == MaxOf({i \in 1..Len(path) : AfterSlash(path[i]) # path[i]})
        rest   == IF k = 0 THEN "" ELSE AfterSlash(path[k])
        popped == (IF rest = "" THEN <<>> ELSE <<rest>>)
                     \o SubSeq(path, k + 1, Len(path))
    IN  IF popped = <<>> THEN path ELSE popped

\* if (!filename.endsWith('.tex')) filename += '.tex'
ImportFilename(importPath) ==
    LET filename == Basename(importPath)
    IN  IF Last(filename) = ".tex" THEN filename ELSE filename \o <<".tex">>

\* A directive without a target that leaves nothing behind.
MissingMarkerDropped(filename) == <<>>

MissingMarker(filename) ==
    <<"\n", "%", " Missing file: ">> \o filename \o <<"\n">>

\* A revisited file reported with the text of the missing-file branch.
LoopMarkerAsMissing(filename) == MissingMarker(filename)

LoopMarker(filename) ==
    <<"\n", "%", " Recursive loop detected: ">> \o filename \o <<"\n">>

BeginMarker(filename) == <<"\n", "%", " Begin ">> \o filename \o <<"\n">>

EndMarker(filename) == <<"\n", "%", " End ">> \o filename \o <<"\n">>

\* Object.values(fileMap).find(f => f.name === filename), then
\* fileNode && fileNode.content: the node's content, or <<>> when there is
\* no such node or its content is the empty string.
FileContent(fm, filename) ==
    LET found == {k \in 1..Len(fm) : fm[k].name = filename}
    IN  IF found = {} \/ "content" \notin DOMAIN fm[MinOf(found)] THEN <<>>
        ELSE fm[MinOf(found)].content

\* The set a nested call receives by reference, as the caller sees it once
\* the expansion of a sibling directive has written to it.  A shared set
\* keeps what the expansion added.
SharedProcessed(processed, afterExpansion) == afterExpansion

\* const newProcessed = new Set(processed): the nested call works on a
\* copy, so the caller's set is the same before and after the expansion.
CallerProcessed(processed, afterExpansion) == processed

\* The start of the leftmost match of the expression at or after index i,
\* or 0: where a global replace continues.
NextImport(s, i) == MinOf({m \in i..Len(s) : ImportMatchEnd(s, m) # 0})

\* One pass of content.replace(regex, callback) from index i on.  The
\* result records the text, the directives handled in call order (with the
\* processed set each was checked against and its nesting depth) and the
\* processed set as the caller holds it at the end of the pass.
RECURSIVE ResolveFrom(_, _, _, _, _)
ResolveFrom(s, i, fm, processed, depth) ==
    LET m == NextImport(s, i) IN
    IF m = 0
    THEN [text |-> SubSeq(s, i, Len(s)), calls |-> <<>>,
          processed |-> processed]
    ELSE LET k        == ImportMatchEnd(s, m)
             before   == SubSeq(s, i, m - 1)
             filename == ImportFilename(SubSeq(s, m + 2, k - 1))
             content  == FileContent(fm, filename)
             call     == [name |-> filename, processed |-> processed,
                          depth |-> depth]
         IN  IF filename \in processed
             THEN LET rest == ResolveFrom(s, k + 1, fm, processed, depth)
                  IN  [rest EXCEPT
                         !.text = before \o LoopMarker(filename) \o @,
                         !.calls = <<call>> \o @]
             ELSE IF content # <<>>
             THEN LET child == ResolveFrom(content, 1, fm,
                                   processed \cup {filename}, depth + 1)
                      after == CallerProcessed(processed, child.processed)
                      rest  == ResolveFrom(s, k + 1, fm, after, depth)
                  IN  [rest EXCEPT
                         !.text = before \o BeginMarker(filename)
                                    \o child.text \o EndMarker(filename) \o @,
                         !.calls = <<call>> \o child.calls \o @]
             ELSE LET rest == ResolveFrom(s, k + 1, fm, processed, depth)
                  IN  [rest EXCEPT
                         !.text = before \o MissingMarker(filename) \o @,
                         !.calls = <<call>> \o @]

\* resolveLatexImports(content, fileMap) with the default processed = new Set()
resolveLatexImports(content, fm) ==
    LET r == ResolveFrom(content, 1, fm, {}, 1)
    IN  [run |-> TRUE, text |-> r.text, calls |-> r.calls]

(***************************************************************************)
(* parseLatexToHtml, src/unnamed/part_000:22-197.  Every stage is a global *)
(* String.replace: the leftmost match at or after the end of the previous  *)
(* one is replaced, and the replacement is not scanned again.  A chain of  *)
(* replaces is written as nested set constructors, read from the bottom    *)
(* up: each pass works on the finished result of the pass below it.        *)
(***************************************************************************)

\* s with every occurrence of the lexeme block pat replaced by rep.
RECURSIVE ReplaceFrom(_, _, _, _)
ReplaceFrom(s, pat, rep, i) ==
    LET m == NextOccurrence(s, pat, i)
    IN  IF m = 0 THEN SubSeq(s, i, Len(s))
        ELSE SubSeq(s, i, m - 1) \o rep \o ReplaceFrom(s, pat, rep, m + Len(pat))

ReplaceLiteral(s, pat, rep) == ReplaceFrom(s, pat, rep, 1)

\* /\{([^}]+)\}/ tried at index j: the index of the closing brace, or 0.
BraceArgEnd(s, j) ==
    IF j <= Len(s) /\ s[j] = "{"
    THEN LET k == IndexFrom(s, "}", j + 1)
         IN  IF k > j + 1 THEN k ELSE 0
    ELSE 0

\* /(?:\[.*?\])?/ tried at index j with a brace argument required after it:
\* the index at which the brace argument starts, or 0.  The bracket group
\* does not cross a line end and stops at the first "]" a brace argument
\* follows.
AfterOptionalBracket(s, j) ==
    IF j <= Len(s) /\ s[j] = "["
    THEN LET ends == {k \in (j + 1)..Len(s) :
                         /\ s[k] = "]"
                         /\ \A q \in (j + 1)..(k - 1) : s[q] # "\n"
                         /\ BraceArgEnd(s, k + 1) # 0}
         IN  IF ends = {} THEN 0 ELSE MinOf(ends) + 1
    ELSE IF BraceArgEnd(s, j) # 0 THEN j ELSE 0

\* A command followed by nargs brace arguments, tried at index m: the
\* indices of the argument braces, <<open1, close1, ...>>, or <<>>.
CommandArgs(s, m, cmd, nargs) ==
    IF s[m] # cmd THEN <<>>
    ELSE LET k1 == BraceArgEnd(s, m + 1)
         IN  IF k1 = 0 THEN <<>>
             ELSE IF nargs = 1 THEN <<m + 1, k1>>
             ELSE LET k2 == BraceArgEnd(s, k1 + 1)
                  IN  IF k2 = 0 THEN <<>> ELSE <<m + 1, k1, k1 + 1, k2>>

NextCommandMatch(s, i, cmd, nargs) ==
    MinOf({m \in i..Len(s) : CommandArgs(s, m, cmd, nargs) # <<>>})

\* replace(/\\cmd\{([^}]+)\}/g, pre + '$1' + post), or with nargs = 2 and
\* keep = FALSE the removal of a command with its arguments.
RECURSIVE ReplaceCommandFrom(_, _, _, _, _, _, _)
ReplaceCommandFrom(s, i, cmd, nargs, pre, post, keep) ==
    LET m == NextCommandMatch(s, i, cmd, nargs)
    IN  IF m = 0 THEN SubSeq(s, i, Len(s))
        ELSE LET a == CommandArgs(s, m, cmd, nargs)
             IN  SubSeq(s, i, m - 1) \o pre
                    \o (IF keep THEN SubSeq(s, a[1] + 1, a[2] - 1) ELSE <<>>)
                    \o post
                    \o ReplaceCommandFrom(s, Last(a) + 1, cmd, nargs,
                                          pre, post, keep)

WrapCommand(s, cmd, pre, post) == ReplaceCommandFrom(s, 1, cmd, 1, pre, post, TRUE)

DropCommand(s, cmd, nargs) == ReplaceCommandFrom(s, 1, cmd, nargs, <<>>, <<>>, FALSE)

\* 1. Clean Comments: /(?<!\\)%.*$/gm.  A "%" that follows a lexeme ending
\* in a backslash is not a comment; the comment runs to the end of its line.
IsCommentStart(s, m) ==
    /\ s[m] = "%"
    /\ ~(m > 1 /\ s[m - 1] \in {"\\", "\\\\"})

RECURSIVE CleanCommentsFrom(_, _)
CleanCommentsFrom(s, i) ==
    LET m == MinOf({j \in i..Len(s) : IsCommentStart(s, j)})
    IN  IF m = 0 THEN SubSeq(s, i, Len(s))
        ELSE LET nl == IndexFrom(s, "\n", m)
             IN  SubSeq(s, i, m - 1)
                    \o (IF nl = 0 THEN <<>> ELSE CleanCommentsFrom(s, nl))

CleanComments(s) == CleanCommentsFrom(s, 1)

\* 2. Extract Body: indexOf('\\begin{document}'), lastIndexOf('\\end{document}')
\* and substring(beginDoc + 16, endDoc), which swaps its arguments when the
\* first is the larger.
ExtractBody(s) ==
    LET beginDoc == IndexFrom(s, "\\begin{document}", 1)
        endDoc   == LastIndexOf(s, "\\end{document}")
    IN  IF beginDoc # 0 /\ endDoc # 0
        THEN IF endDoc > beginDoc
             THEN SubSeq(s, beginDoc + 1, endDoc - 1)
             ELSE SubSeq(s, endDoc, beginDoc)
        ELSE s

\* /\\usepackage(?:\[.*?\])?\{[^}]+\}/g replaced by ''
RECURSIVE DropUsepackageFrom(_, _)
DropUsepackageFrom(s, i) ==
    LET m == MinOf({j \in i..Len(s) :
                       s[j] = "\\usepackage" /\ AfterOptionalBracket(s, j + 1) # 0})
    IN  IF m = 0 THEN SubSeq(s, i, Len(s))
        ELSE SubSeq(s, i, m - 1)
                \o DropUsepackageFrom(s,
                       BraceArgEnd(s, AfterOptionalBracket(s, m + 1)) + 1)

\* 3. Remove Preamble/Setup commands
RemoveSetup(s) ==
    CHOOSE result \in
      {DropUsepackageFrom(s5, 1) : s5 \in
      {DropCommand(s4, "\\setlength", 2) : s4 \in
      {DropCommand(s3, "\\renewcommand", 2) : s3 \in
      {DropCommand(s2, "\\hyphenation", 1) : s2 \in
      {ReplaceLiteral(s1, <<"\\frenchspacing">>, <<>>) : s1 \in
      {DropCommand(s, "\\selectlanguage", 1)}}}}}} : TRUE

\* parseFloat on a length: the white space at its start is skipped, a
\* sign is read, and the number that follows is the result, or NaN when
\* no number follows.  The result is written as the template literal
\* prints it.
Numerals == {"0.5", "2", "10.5"}

\* The white space of the lexemes: what \s matches and what parseFloat and
\* trim skip.
WhiteSpace == {" ", "\n", "\t"}

RECURSIVE TrimStart(_)
TrimStart(w) ==
    IF w # <<>> /\ Head(w) \in WhiteSpace THEN TrimStart(Tail(w)) ELSE w

ParseFloat(w) ==
    LET t == TrimStart(w)
    IN  IF t # <<>> /\ t[1] \in Numerals THEN t[1]
        ELSE IF Len(t) >= 2 /\ t[1] = "+" /\ t[2] \in Numerals THEN t[2]
        ELSE IF Len(t) >= 2 /\ t[1] = "-" /\ t[2] \in Numerals
        THEN "-" \o t[2]
        ELSE "NaN"

\* `${fraction * 100}%` and `${(cm / 21) * 100}%`
FractionPercent(x) ==
    CASE x = "0.5" -> "50%" [] x = "2" -> "200%" [] x = "10.5" -> "1050%"
      [] x = "-0.5" -> "-50%" [] x = "-2" -> "-200%"
      [] x = "-10.5" -> "-1050%"
      [] OTHER -> "NaN%"

CmPercent(x) ==
    CASE x = "0.5" -> "2.380952380952381%" [] x = "2" -> "9.523809523809524%"
      [] x = "10.5" -> "50%"
      [] x = "-0.5" -> "-2.380952380952381%"
      [] x = "-2" -> "-9.523809523809524%"
      [] x = "-10.5" -> "-50%"
      [] OTHER -> "NaN%"

CssWidth(width) ==
    IF StringIncludes(width, <<"\\textwidth">>) THEN FractionPercent(ParseFloat(width))
    ELSE IF StringIncludes(width, <<"cm">>) THEN CmPercent(ParseFloat(width))
    ELSE "100%"

\* /\\begin\{minipage\}\{(.*?)\}([\s\S]*?)\\end\{minipage\}/ tried at m:
\* <<close of the width argument, index of \end{minipage}>>, or <<>>.
MinipageMatch(s, m) ==
    IF s[m] = "\\begin{minipage}" /\ m + 1 <= Len(s) /\ s[m + 1] = "{"
    THEN LET closes == {k \in (m + 2)..Len(s) :
                           /\ s[k] = "}"
                           /\ \A q \in (m + 2)..(k - 1) : s[q] # "\n"
                           /\ IndexFrom(s, "\\end{minipage}", k + 1) # 0}
         IN  IF closes = {} THEN <<>>
             ELSE <<MinOf(closes),
                    IndexFrom(s, "\\end{minipage}", MinOf(closes) + 1)>>
    ELSE <<>>

\* 4. Handle Minipages
RECURSIVE MinipagesFrom(_, _)
MinipagesFrom(s, i) ==
    LET m == MinOf({j \in i..Len(s) : MinipageMatch(s, j) # <<>>})
    IN  IF m = 0 THEN SubSeq(s, i, Len(s))
        ELSE LET a == MinipageMatch(s, m)
             IN  SubSeq(s, i, m - 1)
                   \o <<"<div class=\"inline-block align-top\" style=\"width: ",
                        CssWidth(SubSeq(s, m + 2, a[1] - 1)),
                        "; vertical-align: top;\">">>
                   \o SubSeq(s, a[1] + 1, a[2] - 1) \o <<"</div>">>
                   \o MinipagesFrom(s, a[2] + 1)

Minipages(s) == MinipagesFrom(s, 1)

\* /\\vspace\{([^}]+)\}/g with its callback
VspaceHeight(size) ==
    IF StringIncludes(size, <<"cm">>) THEN <<ParseFloat(size), "cm">>
    ELSE IF StringIncludes(size, <<"mm">>) THEN <<ParseFloat(size), "mm">>
    ELSE <<"1rem">>

RECURSIVE VspaceFrom(_, _)
VspaceFrom(s, i) ==
    LET m == NextCommandMatch(s, i, "\\vspace", 1)
    IN  IF m = 0 THEN SubSeq(s, i, Len(s))
        ELSE LET k == BraceArgEnd(s, m + 1)
             IN  SubSeq(s, i, m - 1) \o <<"<div style=\"height: ">>
                    \o VspaceHeight(SubSeq(s, m + 2, k - 1)) \o <<"\"></div>">>
                    \o VspaceFrom(s, k + 1)

\* 5. Handle Layout & Spacing
Layout(s) ==
    CHOOSE result \in
      {ReplaceLiteral(s6, <<"\\\\">>, <<"<br/>">>) : s6 \in
      {ReplaceLiteral(s5, <<"\\par">>, <<"<br/><br/>">>) : s5 \in
      {ReplaceLiteral(s4, <<"\\clearpage">>, <<"<div class=\"page-break\"></div>">>) : s4 \in
      {ReplaceLiteral(s3, <<"\\newpage">>, <<"<div class=\"page-break\"></div>">>) : s3 \in
      {ReplaceCommandFrom(s2, 1, "\\hspace", 1, <<"<span style=\"display:inline-block; width: 1rem;\"></span>">>, <<>>, FALSE) : s2 \in
      {VspaceFrom(s1, 1) : s1 \in
      {ReplaceLiteral(s, <<"\\centering">>, <<"<div class=\"text-center w-full block\">">>)}}}}}}} : TRUE

\* 6. Formatting (Font Styles)
FontStyles(s) ==
    CHOOSE result \in
      {WrapCommand(s5, "\\texttt", <<"<code class=\"bg-gray-100 px-1 rounded font-mono text-sm\">">>, <<"</code>">>) : s5 \in
      {WrapCommand(s4, "\\emph", <<"<em>">>, <<"</em>">>) : s4 \in
      {WrapCommand(s3, "\\underline", <<"<u>">>, <<"</u>">>) : s3 \in
      {WrapCommand(s2, "\\textsc", <<"<span class=\"uppercase text-sm tracking-wider\">">>, <<"</span>">>) : s2 \in
      {WrapCommand(s1, "\\textit", <<"<em>">>, <<"</em>">>) : s1 \in
      {WrapCommand(s, "\\textbf", <<"<strong>">>, <<"</strong>">>)}}}}}} : TRUE

\* /\{\\bfseries\s+([^}]+)\}/ tried at m: <<start of the capture, close>>.
BfseriesMatch(s, m) ==
    IF /\ s[m] = "{" /\ m + 2 <= Len(s)
       /\ s[m + 1] = "\\bfseries" /\ s[m + 2] \in WhiteSpace
    THEN LET k == IndexFrom(s, "}", m + 3)
             ws == {q \in (m + 2)..(k - 2) :
                       \A r \in (m + 2)..q : s[r] \in WhiteSpace}
         IN  IF k > m + 3 THEN <<MaxOf(ws) + 1, k>> ELSE <<>>
    ELSE <<>>

RECURSIVE BfseriesFrom(_, _)
BfseriesFrom(s, i) ==
    LET m == MinOf({j \in i..Len(s) : BfseriesMatch(s, j) # <<>>})
    IN  IF m = 0 THEN SubSeq(s, i, Len(s))
        ELSE LET a == BfseriesMatch(s, m)
             IN  SubSeq(s, i, m - 1) \o <<"<strong>">>
                    \o SubSeq(s, a[1], a[2] - 1) \o <<"</strong>">>
                    \o BfseriesFrom(s, a[2] + 1)

\* 7. Font Sizes
FontSizes(s) ==
    CHOOSE result \in
      {BfseriesFrom(s7, 1) : s7 \in
      {ReplaceLiteral(s6, <<"\\Huge">>, <<"<span class=\"text-4xl\">">>) : s6 \in
      {ReplaceLiteral(s5, <<"\\huge">>, <<"<span class=\"text-3xl\">">>) : s5 \in
      {ReplaceLiteral(s4, <<"\\LARGE">>, <<"<span class=\"text-2xl\">">>) : s4 \in
      {ReplaceLiteral(s3, <<"\\Large">>, <<"<span class=\"text-xl\">">>) : s3 \in
      {ReplaceLiteral(s2, <<"\\large">>, <<"<span class=\"text-lg\">">>) : s2 \in
      {ReplaceLiteral(s1, <<"\\small">>, <<"<span class=\"text-sm\">">>) : s1 \in
      {ReplaceLiteral(s, <<"\\tiny">>, <<"<span class=\"text-xs\">">>)}}}}}}}} : TRUE

\* obj[name] on an object literal that has no own key of this name, as
\* the template literal of the img tag writes it: a method of
\* Object.prototype (the constructor property is the function Object,
\* every other method carries its own name), Object.prototype itself for
\* "__proto__", or <<>> (undefined).
InheritedAt(name) ==
    LET PrototypeMethods ==
          {"constructor", "toString", "toLocaleString", "valueOf",
           "hasOwnProperty", "isPrototypeOf", "propertyIsEnumerable",
           "__defineGetter__", "__defineSetter__", "__lookupGetter__",
           "__lookupSetter__"}
        method == Join(name)
    IN  IF method \in PrototypeMethods
        THEN <<"function", " ",
               IF method = "constructor" THEN "Object" ELSE method,
               "(", ")", " ", "{", " ", "[", "native", " ", "code", "]", " ", "}">>
        ELSE IF method = "__proto__" THEN <<"[", "object", " ", "Object", "]">>
        ELSE <<>>

\* The data of the asset stored under the key, or <<>>.  assets is the
\* list of the own key/data pairs of the object in insertion order, the
\* order of Object.keys.
OwnAssetAt(assets, name) ==
    LET hits == {i \in 1..Len(assets) : Join(assets[i].key) = Join(name)}
    IN  IF hits = {} THEN <<>> ELSE assets[CHOOSE i \in hits : TRUE].src

\* assets[name]: the own key first, then what the object inherits.
AssetAt(assets, name) ==
    IF \E i \in 1..Len(assets) : Join(assets[i].key) = Join(name)
    THEN OwnAssetAt(assets, name)
    ELSE InheritedAt(name)

\* The substring pass stopping at the first key that contains the name.
FirstKeyIncluding(assets, filename) ==
    LET hits == {i \in 1..Len(assets) : StringIncludes(assets[i].key, filename)}
    IN  IF hits = {} THEN <<>> ELSE assets[MinOf(hits)].src

\* Object.keys(assets).forEach(key => { if (key.includes(filename)) src =
\* assets[key] }): every containing key overwrites src, the last one stays.
LastKeyIncluding(assets, filename) ==
    LET hits == {i \in 1..Len(assets) : StringIncludes(assets[i].key, filename)}
    IN  IF hits = {} THEN <<>> ELSE assets[MaxOf(hits)].src

\* let src = assets[filename] || assets[filename + '.png'] || ... and the
\* substring pass when none is set.
ImageSrc(assets, filename) ==
    LET strict ==
          IF AssetAt(assets, filename) # <<>> THEN AssetAt(assets, filename)
          ELSE IF AssetAt(assets, filename \o <<".png">>) # <<>>
               THEN AssetAt(assets, filename \o <<".png">>)
          ELSE IF AssetAt(assets, filename \o <<".jpg">>) # <<>>
               THEN AssetAt(assets, filename \o <<".jpg">>)
          ELSE AssetAt(assets, filename \o <<".jpeg">>)
    IN  IF strict # <<>> THEN strict ELSE LastKeyIncluding(assets, filename)

ImageTagOpen == "<img src=\""

MissingImageOpen ==
    "<div class=\"bg-red-50 border border-red-200 text-red-500 text-xs p-2 text-center rounded my-4 font-mono\">Missing Image: "

MissingImage(filename) == <<MissingImageOpen>> \o filename \o <<"</div>">>

ImageTag(src, filename) ==
    <<ImageTagOpen>> \o src \o <<"\" alt=\"">> \o filename
       \o <<"\" style=\"max-width: 100%; height: auto; display: block; margin: 1rem auto;\" />">>

\* const filename = path.split('/').pop() || path
ImageFilename(path) == Basename(path)

ImageReplacement(assets, path) ==
    LET filename == ImageFilename(path)
        src      == ImageSrc(assets, filename)
    IN  IF src # <<>> THEN ImageTag(src, filename) ELSE MissingImage(filename)

\* /\\includegraphics(?:\[.*?\])?\{([^}]+)\}/ tried at m: the index of the
\* opening brace of the path, or 0.
ImageMatch(s, m) ==
    IF s[m] = "\\includegraphics" THEN AfterOptionalBracket(s, m + 1) ELSE 0

\* 8. Images
RECURSIVE ImagesFrom(_, _, _)
ImagesFrom(s, i, assets) ==
    LET m == MinOf({j \in i..Len(s) : ImageMatch(s, j) # 0})
    IN  IF m = 0 THEN SubSeq(s, i, Len(s))
        ELSE LET open == ImageMatch(s, m)
                 k    == BraceArgEnd(s, open)
             IN  SubSeq(s, i, m - 1)
                    \o ImageReplacement(assets, SubSeq(s, open + 1, k - 1))
                    \o ImagesFrom(s, k + 1, assets)

Images(s, assets) == ImagesFrom(s, 1, assets)

\* /\\chapter\*?\{([^}]+)\}/ and its section and subsection forms, tried at
\* m: the index of the opening brace of the title, or 0.
HeadingMatch(s, m, cmd) ==
    IF s[m] # cmd THEN 0
    ELSE LET open == IF m + 1 <= Len(s) /\ s[m + 1] = "*" THEN m + 2 ELSE m + 1
         IN  IF BraceArgEnd(s, open) # 0 THEN open ELSE 0

NextHeading(s, i, cmd) == MinOf({j \in i..Len(s) : HeadingMatch(s, j, cmd) # 0})

\* A callback that takes no heading for a starred one.
HasStarNever(s, m, k) == FALSE

\* match.includes('*')
HasStar(s, m, k) == \E q \in m..k : s[q] = "*"

SectionNumber(chapterCount, sectionCount) ==
    IF chapterCount > 0
    THEN <<ToString(chapterCount), ".", ToString(sectionCount)>>
    ELSE <<ToString(sectionCount)>>

SubsectionNumber(chapterCount, sectionCount, subsectionCount) ==
    IF chapterCount > 0
    THEN <<ToString(chapterCount), ".", ToString(sectionCount), ".",
           ToString(subsectionCount)>>
    ELSE <<ToString(sectionCount), ".", ToString(subsectionCount)>>

\* The chapter pass.  c is the record of the three counters.
RECURSIVE ChaptersFrom(_, _, _)
ChaptersFrom(s, i, c) ==
    LET m == NextHeading(s, i, "\\chapter")
    IN  IF m = 0 THEN [text |-> SubSeq(s, i, Len(s)), counters |-> c]
        ELSE LET open == HeadingMatch(s, m, "\\chapter")
                 k    == BraceArgEnd(s, open)
                 star == HasStar(s, m, k)
                 c1   == [c EXCEPT
                            !.chapterCount = IF star THEN @ ELSE @ + 1,
                            !.sectionCount = 0]
                 rest == ChaptersFrom(s, k + 1, c1)
             IN  [rest EXCEPT !.text =
                    SubSeq(s, i, m - 1)
                      \o <<"<h1 class=\"text-3xl font-bold mt-8 mb-6 border-b pb-2\">">>
                      \o (IF star THEN <<>>
                          ELSE <<ToString(c1.chapterCount), ". ">>)
                      \o SubSeq(s, open + 1, k - 1) \o <<"</h1>">> \o @]

\* The section pass.
RECURSIVE SectionsFrom(_, _, _)
SectionsFrom(s, i, c) ==
    LET m == NextHeading(s, i, "\\section")
    IN  IF m = 0 THEN [text |-> SubSeq(s, i, Len(s)), counters |-> c]
        ELSE LET open == HeadingMatch(s, m, "\\section")
                 k    == BraceArgEnd(s, open)
                 star == HasStar(s, m, k)
                 c1   == [c EXCEPT
                            !.sectionCount = IF star THEN @ ELSE @ + 1,
                            !.subsectionCount = 0]
                 rest == SectionsFrom(s, k + 1, c1)
             IN  [rest EXCEPT !.text =
                    SubSeq(s, i, m - 1)
                      \o <<"<h2 class=\"text-2xl font-bold mt-6 mb-4 text-slate-800\">">>
                      \o (IF star THEN <<>>
                          ELSE SectionNumber(c1.chapterCount, c1.sectionCount)
                                  \o <<" ">>)
                      \o SubSeq(s, open + 1, k - 1) \o <<"</h2>">> \o @]

\* The subsection pass.
RECURSIVE SubsectionsFrom(_, _, _)
SubsectionsFrom(s, i, c) ==
    LET m == NextHeading(s, i, "\\subsection")
    IN  IF m = 0 THEN [text |-> SubSeq(s, i, Len(s)), counters |-> c]
        ELSE LET open == HeadingMatch(s, m, "\\subsection")
                 k    == BraceArgEnd(s, open)
                 star == HasStar(s, m, k)
                 c1   == [c EXCEPT
                            !.subsectionCount = IF star THEN @ ELSE @ + 1]
                 rest == SubsectionsFrom(s, k + 1, c1)
             IN  [rest EXCEPT !.text =
                    SubSeq(s, i, m - 1)
                      \o <<"<h3 class=\"text-xl font-bold mt-4 mb-3 text-slate-700\">">>
                      \o (IF star THEN <<>>
                          ELSE SubsectionNumber(c1.chapterCount, c1.sectionCount,
                                                c1.subsectionCount) \o <<" ">>)
                      \o SubSeq(s, open + 1, k - 1) \o <<"</h3>">> \o @]

\* Counters that live outside the function and keep what the rendering
\* before this one left in them: the numbers of numbered headings it saw.
CountersOfLastPass ==
    IF renderedHtml.run
    THEN [chapterCount |->
            Cardinality({q \in 1..Len(renderedHtml.text) : renderedHtml.text[q] =
               "<h1 class=\"text-3xl font-bold mt-8 mb-6 border-b pb-2\">"}),
          sectionCount |->
            Cardinality({q \in 1..Len(renderedHtml.text) : renderedHtml.text[q] =
               "<h2 class=\"text-2xl font-bold mt-6 mb-4 text-slate-800\">"}),
          subsectionCount |-> 0]
    ELSE [chapterCount |-> 0, sectionCount |-> 0, subsectionCount |-> 0]

\* let chapterCount = 0; let sectionCount = 0; let subsectionCount = 0
ZeroCounters == [chapterCount |-> 0, sectionCount |-> 0, subsectionCount |-> 0]

\* 9. Structure (Chapters/Sections): three passes over the whole text, one
\* per level, that share the counters.
Structure(s) ==
    CHOOSE result \in
      {subsections.text : subsections \in
      {SubsectionsFrom(sections.text, 1, sections.counters) : sections \in
      {SectionsFrom(chapters.text, 1, chapters.counters) : chapters \in
      {ChaptersFrom(s, 1, ZeroCounters)}}}} : TRUE

\* /\\begin\{env\}([\s\S]*?)\\end\{env\}/g replaced by pre + '$1' + post
RECURSIVE EnvironmentFrom(_, _, _, _, _, _)
EnvironmentFrom(s, i, begin, end, pre, post) ==
    LET m == MinOf({j \in i..Len(s) :
                       s[j] = begin /\ IndexFrom(s, end, j + 1) # 0})
    IN  IF m = 0 THEN SubSeq(s, i, Len(s))
        ELSE LET e == IndexFrom(s, end, m + 1)
             IN  SubSeq(s, i, m - 1) \o pre \o SubSeq(s, m + 1, e - 1) \o post
                    \o EnvironmentFrom(s, e + 1, begin, end, pre, post)

\* /\\item\s+([^\n]*)/ tried at m: <<start of the capture, its end>>.
ItemMatch(s, m) ==
    IF s[m] = "\\item" /\ m + 1 <= Len(s) /\ s[m + 1] \in WhiteSpace
    THEN LET ws    == {q \in (m + 1)..Len(s) :
                          \A r \in (m + 1)..q : s[r] \in WhiteSpace}
             start == MaxOf(ws) + 1
             nl    == IndexFrom(s, "\n", start)
         IN  <<start, IF nl = 0 THEN Len(s) ELSE nl - 1>>
    ELSE <<>>

RECURSIVE ItemsFrom(_, _)
ItemsFrom(s, i) ==
    LET m == MinOf({j \in i..Len(s) : ItemMatch(s, j) # <<>>})
    IN  IF m = 0 THEN SubSeq(s, i, Len(s))
        ELSE LET a == ItemMatch(s, m)
             IN  SubSeq(s, i, m - 1) \o <<"<li>">> \o SubSeq(s, a[1], a[2])
                    \o <<"</li>">> \o ItemsFrom(s, a[2] + 1)

\* 10. Lists
Lists(s) ==
    CHOOSE result \in
      {ItemsFrom(s2, 1) : s2 \in
      {EnvironmentFrom(s1, 1, "\\begin{enumerate}", "\\end{enumerate}", <<"<ol class=\"list-decimal pl-6 space-y-1 my-4\">">>, <<"</ol>">>) : s1 \in
      {EnvironmentFrom(s, 1, "\\begin{itemize}", "\\end{itemize}", <<"<ul class=\"list-disc pl-6 space-y-1 my-4\">">>, <<"</ul>">>)}}} : TRUE

\* 11. Abstract
Abstract(s) ==
    EnvironmentFrom(s, 1, "\\begin{abstract}", "\\end{abstract}",
        <<"<div class=\"mx-12 my-8 text-sm text-justify\"><p class=\"text-center font-bold text-xs uppercase tracking-wider mb-2\">Abstract</p>">>,
        <<"</div>">>)

\* 12. Special Characters & cleanup.  The lexemes "&mdash;" and "&ndash;"
\* stand for the em dash and the en dash of the output, "&grave;" for the
\* grave accent of the input.
SpecialCharacters(s) ==
    CHOOSE result \in
      {DropCommand(s8, "\\label", 1) : s8 \in
      {ReplaceCommandFrom(s7, 1, "\\ref", 1, <<"<span class=\"text-blue-600\">1.1</span>">>, <<>>, FALSE) : s7 \in
      {ReplaceCommandFrom(s6, 1, "\\cite", 1, <<"<span class=\"text-blue-600\">[1]</span>">>, <<>>, FALSE) : s6 \in
      {WrapCommand(s5, "\\footnote", <<"<sup class=\"text-blue-600 cursor-pointer\" title=\"">>, <<"\">[ref]</sup>">>) : s5 \in
      {ReplaceLiteral(s4, <<"'", "'">>, <<"\"">>) : s4 \in
      {ReplaceLiteral(s3, <<"&grave;", "&grave;">>, <<"\"">>) : s3 \in
      {ReplaceLiteral(s2, <<"-", "-">>, <<"&ndash;">>) : s2 \in
      {ReplaceLiteral(s1, <<"-", "-", "-">>, <<"&mdash;">>) : s1 \in
      {ReplaceLiteral(s, <<"\\textthreequartersemdash">>, <<"&mdash;">>)}}}}}}}}} : TRUE

\* katex.renderToString(math, {displayMode, throwOnError: false}): the
\* typeset HTML of the source.  The call still throws on some inputs; which
\* ones is up to the library, so the set is an input of the model.
KatexHtml(math, displayMode) ==
    <<IF displayMode THEN "<span class=\"katex-display\">" ELSE "<span class=\"katex\">">>
       \o math \o <<"</span>">>

\* try { ... } catch (e) { ... } of the inline pass
InlineMath(math, throws) ==
    IF math \in throws
    THEN <<"<span class=\"font-mono text-xs bg-yellow-50\">">> \o math \o <<"</span>">>
    ELSE KatexHtml(math, FALSE)

\* try { ... } catch (e) { ... } of the two display passes
DisplayMath(math, throws) ==
    IF math \in throws
    THEN <<"<div class=\"font-mono text-xs bg-yellow-50 p-2\">">> \o math \o <<"</div>">>
    ELSE <<"<div class=\"my-4 text-center\">">> \o KatexHtml(math, TRUE) \o <<"</div>">>

\* /\$([^$]+)\$/ tried at m: the index of the closing dollar, or 0.
InlineMatchEnd(s, m) ==
    IF s[m] = "$"
    THEN LET k == IndexFrom(s, "$", m + 1)
         IN  IF k > m + 1 THEN k ELSE 0
    ELSE 0

RECURSIVE InlineFrom(_, _, _)
InlineFrom(s, i, throws) ==
    LET m == MinOf({j \in i..Len(s) : InlineMatchEnd(s, j) # 0})
    IN  IF m = 0 THEN SubSeq(s, i, Len(s))
        ELSE LET k == InlineMatchEnd(s, m)
             IN  SubSeq(s, i, m - 1) \o InlineMath(SubSeq(s, m + 1, k - 1), throws)
                    \o InlineFrom(s, k + 1, throws)

\* /\$\$([\s\S]*?)\$\$/ and /\\\[([\s\S]*?)\\\]/ tried at m, open and close
\* being the delimiter blocks: the index at which the closing one starts.
DisplayMatchEnd(s, m, open, close) ==
    IF OccursAt(s, open, m) THEN NextOccurrence(s, close, m + Len(open)) ELSE 0

RECURSIVE DisplayFrom(_, _, _, _, _)
DisplayFrom(s, i, open, close, throws) ==
    LET m == MinOf({j \in i..Len(s) : DisplayMatchEnd(s, j, open, close) # 0})
    IN  IF m = 0 THEN SubSeq(s, i, Len(s))
        ELSE LET k == DisplayMatchEnd(s, m, open, close)
             IN  SubSeq(s, i, m - 1)
                    \o DisplayMath(SubSeq(s, m + Len(open), k - 1), throws)
                    \o DisplayFrom(s, k + Len(close), open, close, throws)

\* 13. Math: the inline pass, then $$...$$, then \[...\].
Math(s, throws) ==
    CHOOSE result \in
      {DisplayFrom(s2, 1, <<"\\[">>, <<"\\]">>, throws) : s2 \in
      {DisplayFrom(s1, 1, <<"$", "$">>, <<"$", "$">>, throws) : s1 \in
      {InlineFrom(s, 1, throws)}}} : TRUE

\* parseLatexToHtml(code, assets); throws is the set of math sources on
\* which katex.renderToString throws.
parseLatexToHtml(code, assets, throws) ==
    IF code = <<>> THEN <<>>
    ELSE CHOOSE processed \in
           {Math(s12, throws) : s12 \in
           {SpecialCharacters(s11) : s11 \in
           {Abstract(s10) : s10 \in
           {Lists(s9) : s9 \in
           {Structure(s8) : s8 \in
           {Images(s7, assets) : s7 \in
           {FontSizes(s6) : s6 \in
           {FontStyles(s5) : s5 \in
           {Layout(s4) : s4 \in
           {Minipages(s3) : s3 \in
           {RemoveSetup(s2) : s2 \in
           {ExtractBody(s1) : s1 \in
           {CleanComments(code)}}}}}}}}}}}}} : TRUE

NoProject == "null"

NoTimer == [pending |-> FALSE]

NotWritten == [written |-> FALSE]

\* The App as it is mounted: the initial values of the useState of
\* src/hooks/useProjects.ts:103-104 and of src/App.tsx:18-28, the
\* fetchProjectsFromBin of the load effect in flight (bin is the list it
\* resolves to), local the content of localStorage, no Preview mounted
\* and no pass of handleRecompile so far.
Mounted(bin, local) ==
    /\ projects = <<>>
    /\ status = "loading"
    /\ load = [pending |-> TRUE, data |-> bin]
    /\ stored = local
    /\ saveTimer = FALSE
    /\ saveRequests = 0
    /\ view = "dashboard"
    /\ activeProjectId = NoProject
    /\ activeFileId = ""
    /\ isCompiling = FALSE
    /\ logs = <<>>
    /\ compileTimer = NoTimer
    /\ aiProcessing = FALSE
    /\ aiRequest = NoTimer
    /\ importTimer = NoTimer
    /\ fileReaders = {}
    /\ created = 0
    /\ compiledContent = <<>>
    /\ previewAssets = <<>>
    /\ renderedHtml = NotRun
    /\ previewTimer = NoTimer
    /\ fileMap = <<>>
    /\ resolved = NotRun

(***************************************************************************)
(* The handlers of src/App.tsx: opening a project, selecting a file,       *)
(* typing into it, going back to the dashboard and recompiling, with the   *)
(* Preview that the editor view mounts.  A project is its id and files,    *)
(* the children of its root folder.  A node is a file (id, name, type,     *)
(* content) or a folder (id, name, type, isOpen, children).  An object     *)
(* keyed by file name (fileMap, assets) is the sequence of its values in   *)
(* the order of its keys, which is the order in which the keys were first  *)
(* set: the names of the model are not array indices.                      *)
(***************************************************************************)
MainTex == <<"main", ".tex">>

File(id, name, content) ==
    [id |-> id, name |-> name, type |-> "file", content |-> content]

Folder(id, name, isOpen, children) ==
    [id |-> id, name |-> name, type |-> "folder", isOpen |-> isOpen,
     children |-> children]

\* What a search that finds nothing returns: undefined or null.
NoFile == File("", <<>>, <<>>)

Undefined == [id |-> NoProject, files |-> <<>>]

\* node.children is set
HasChildren(node) == "children" \in DOMAIN node

\* node.content, the empty string when it is not set
ContentOf(node) == IF "content" \in DOMAIN node THEN node.content ELSE <<>>

\* node.isOpen, false when it is not set
IsOpen(node) == "isOpen" \in DOMAIN node /\ node.isOpen

\* activeProject.root
Root(project) == Folder("root", <<"root">>, FALSE, project.files)

\* SAMPLE_LATEX, src/hooks/useProjects.ts:6-65
SAMPLE_LATEX ==
    <<"\\documentclass", "[", "12pt, a4paper", "]", "{", "article", "}", "\n",
      "\\usepackage", "[", "utf8", "]", "{", "inputenc", "}", "\n",
      "\\usepackage", "{", "graphicx", "}", "\n",
      "\\usepackage", "{", "amsmath", "}", "\n",
      "\n",
      "\\title", "{", "Thesis Template", "}", "\n",
      "\\author", "{", "Student Name", "}", "\n",
      "\\date", "{", "\\today", "}", "\n",
      "\n",
      "\\begin{document}", "\n",
      "\n",
      "\\begin{center}", "\n",
      "    ", "\\textsc", "{", "\\LARGE", " University Name", "}", " ",
      "\\\\", "\n",
      "    ", "\\vspace", "{", "0.5", "cm", "}", "\n",
      "    ", "\\textsc", "{", "\\Large", " Department of Science", "}", "\n",
      "\\end{center}", "\n",
      "\n",
      "\\vspace", "{", "2", "cm", "}", "\n",
      "\n",
      "\\begin{center}", "\n",
      "    ", "\\textbf", "{", "\\Huge", " Thesis Title Goes Here", "}", "\n",
      "\\end{center}", "\n",
      "\n",
      "\\vspace", "{", "2", "cm", "}", "\n",
      "\n",
      "\\begin{center}", "\n",
      "    ", "\\textbf", "{", "\\Large", " Author Name", "}", "\n",
      "\\end{center}", "\n",
      "\n",
      "\\vfill", "\n",
      "\n",
      "\\begin{center}", "\n",
      "    ", "City, Country", " ", "\\\\", "\n",
      "    ", "2025", "\n",
      "\\end{center}", "\n",
      "\n",
      "\\newpage", "\n",
      "\n",
      "\\tableofcontents", "\n",
      "\n",
      "\\newpage", "\n",
      "\n",
      "\\begin{abstract}", "\n",
      "This is a simple abstract for the thesis template simulating a real project structure",
      ".", " ", "The layout should look like a real PDF document", ".", "\n",
      "\\end{abstract}", "\n",
      "\n",
      "\\chapter", "{", "Introduction", "}", "\n",
      "This project demonstrates the new", " ", "*", "*", "Tree View", "*", "*",
      " ", "file structure in GeminiLeaf", ".", "\n",
      "You can organize your files into folders like", " ", "'", "Chapters",
      "'", " and ", "'", "Figures", "'", ".", "\n",
      "\n",
      "\\section", "{", "Background", "}", "\n",
      "\\input", "{", "Chapters", "/", "intro", "}", "\n",
      "\n",
      "\\section", "{", "Math Example", "}", "\n",
      "Here is some math to test the preview:", "\n",
      "$", "$", " ", "\\int", "_0^", "\\infty", " e^", "{", "-", "x^2", "}",
      " dx = ", "\\frac", "{", "\\sqrt", "{", "\\pi", "}", "}", "{", "2", "}",
      " ", "$", "$", "\n",
      "\n",
      "\\end{document}", "\n">>

\* INITIAL_PROJECT, src/hooks/useProjects.ts:67-100; files is root.children
INITIAL_PROJECT ==
    [id |-> "proj_1", files |->
       << File("main.tex", MainTex, SAMPLE_LATEX),
          File("bib.bib", <<"references", ".bib">>,
               <<"@article", "{", "key, ...", "}">>),
          Folder("chapters", <<"Chapters">>, TRUE,
                 << File("intro.tex", <<"intro", ".tex">>,
                         <<"This text comes from an external file imported via",
                           " ", "\\texttt", "{", "\\textbackslash", " input",
                           "}", ".", " ",
                           "It should flow seamlessly into the document",
                           ".">>) >>),
          Folder("figures", <<"Figures">>, FALSE, <<>>) >>]

\* The projects of the session: an inclusion cycle through the entry, which
\* has a numbered heading, next to an image, a missing include without a document class, an entry with
\* empty content, a project without a .tex file, a project whose .tex files
\* are not named main.tex, and a project without files.
SessionProjects ==
    << [id |-> "p1", files |->
          << File("p1/1", MainTex,
                  <<"\\documentclass", "{", "article", "}", "\n",
                    "\\section", "{", "s0", "}", "\n", "a0",
                    "\\input", "{", "A", "}", "a1">>),
             Folder("p1/ch", <<"ch">>, TRUE,
                    << File("p1/2", <<"A", ".tex">>,
                            <<"b0", "\\input", "{", "main", "}", "b1">>) >>),
             Folder("p1/fig", <<"fig">>, FALSE,
                    << File("p1/3", <<"k", ".png">>, <<"data:k.png">>) >>) >>],
       [id |-> "p2", files |->
          << File("p2/1", MainTex, <<"c0", "\\include", "{", "M", "}", "c1">>) >>],
       [id |-> "p3", files |->
          << File("p3/1", MainTex, <<>>),
             File("p3/2", <<"A", ".tex">>, <<"d0">>) >>],
       [id |-> "p4", files |->
          << File("p4/1", <<"refs", ".bib">>, <<"@article">>) >>],
       [id |-> "p5", files |->
          << File("p5/1", <<"x", ".tex">>, <<"e0", "\\input", "{", "x", "}">>),
             File("p5/2", <<"y", ".tex">>,
                  <<"\\documentclass", "{", "book", "}", "\n", "f0">>),
             File("p5/3", <<"m", ".JpG">>, <<"data:m.JpG">>) >>],
       [id |-> "p6", files |-> <<>>] >>

\* The projects of the workspace sessions: one project of two files, one
\* of them in a folder.
WorkspaceProjects ==
    << [id |-> "p1", files |->
          << File("p1/1", MainTex, <<"a0", "\\input", "{", "A", "}", "a1">>),
             Folder("p1/ch", <<"ch">>, TRUE,
                    << File("p1/2", <<"A", ".tex">>, <<"b0">>) >>) >>] >>

\* seen.find(p => p.id === id), for the list of projects a handler closes
\* over.
FindIn(seen, id) ==
    LET hits == {i \in 1..Len(seen) : seen[i].id = id}
    IN  IF hits = {} THEN Undefined ELSE seen[MinOf(hits)]

\* projects.find(p => p.id === id) in the current rendering
FindProject(id) == FindIn(projects, id)

\* findNode(nodes, id), src/App.tsx:34-43: the first node with this id in
\* a depth-first walk of the tree.
RECURSIVE findNode(_, _)
findNode(nodes, id) ==
    IF nodes = <<>> THEN NoFile
    ELSE LET node  == Head(nodes)
             found == IF HasChildren(node) THEN findNode(node.children, id)
                      ELSE NoFile
         IN  IF node.id = id THEN node
             ELSE IF found # NoFile THEN found
             ELSE findNode(Tail(nodes), id)

\* children.find(c => c.name === 'main.tex') || children.find(c => c.type === 'file')
OpenedFile(files) ==
    LET mains == {i \in 1..Len(files) : files[i].name = MainTex}
        plain == {i \in 1..Len(files) : files[i].type = "file"}
    IN  IF mains # {} THEN files[MinOf(mains)]
        ELSE IF plain # {} THEN files[MinOf(plain)]
        ELSE NoFile

\* The effect of the Preview, src/unnamed/part_000:199-206, when it runs
\* for the props latexCode and assetMap: the cleanup of the previous run
\* has cleared the timer that was pending, and a new timer is set whose
\* callback closes over these props.
PreviewEffect(latexCode, assetMap) ==
    [pending |-> TRUE, latexCode |-> latexCode, assetMap |-> assetMap]

\* The body of handleOpenProject, src/App.tsx:65-78, in a rendering whose
\* list of projects is seen.  When the editor view replaces the dashboard
\* the Preview is mounted: its state is the initial one and its effect runs
\* for the props of this rendering.  In the editor view the Preview stays
\* mounted and its effect runs again when its props have changed.
openProject(seen, projectId) ==
    /\ activeProjectId' = projectId
    /\ LET project == FindIn(seen, projectId)
           main    == IF project = Undefined THEN NoFile
                      ELSE OpenedFile(project.files)
       IN  /\ activeFileId' = IF main # NoFile THEN main.id ELSE activeFileId
           /\ compiledContent' = IF main # NoFile /\ ContentOf(main) # <<>>
                                 THEN main.content ELSE compiledContent
    /\ view' = "editor"
    /\ IF view = "editor"
       THEN /\ renderedHtml' = renderedHtml
            /\ previewTimer' = IF compiledContent' # compiledContent
                               THEN PreviewEffect(compiledContent', previewAssets)
                               ELSE previewTimer
       ELSE /\ renderedHtml' = NotRun
            /\ previewTimer' = PreviewEffect(compiledContent', previewAssets)

\* handleOpenProject called by the dashboard for one of the projects it
\* lists, which it does once the list is loaded (src/unnamed/part_001:108-119).
handleOpenProject(projectId) ==
    /\ view = "dashboard"
    /\ status # "loading"
    /\ FindProject(projectId) # Undefined
    /\ openProject(projects, projectId)
    /\ UNCHANGED <<importVars, previewAssets, katexThrows, projects,
                   isCompiling, logs, compileTimer, saveVars, aiVars,
                   importerVars, load>>

\* onBackToDashboard={() => setView('dashboard')}.  The Preview is
\* unmounted: the cleanup of its effect clears the timer and its state is
\* dropped.
BackToDashboard ==
    /\ view = "editor"
    /\ view' = "dashboard"
    /\ renderedHtml' = NotRun
    /\ previewTimer' = NoTimer
    /\ UNCHANGED <<importVars, compiledContent, previewAssets, katexThrows,
                   projects, activeProjectId, activeFileId, isCompiling, logs,
                   compileTimer, saveVars, aiVars, importerVars, load>>

\* The nodes renderTree puts on the screen, src/unnamed/part_002:45-100:
\* the nodes of a level and, under a folder that is open, those of its
\* children.
RECURSIVE Shown(_)
Shown(nodes) ==
    IF nodes = <<>> THEN {}
    ELSE LET node == Head(nodes)
         IN  {node}
               \cup (IF node.type = "folder" /\ IsOpen(node) /\ HasChildren(node)
                     THEN Shown(node.children)
                     ELSE {})
               \cup Shown(Tail(nodes))

\* The ids of the nodes of this type that the Sidebar shows: the tree of
\* the active project, src/App.tsx:378.
ShownIds(type) ==
    {node.id : node \in {n \in Shown(FindProject(activeProjectId).files) :
                            n.type = type}}

\* onSelectFile={(node) => setActiveFileId(node.id)}, which the Sidebar
\* calls on a click on a file it shows (src/unnamed/part_002:57).
SelectFile(id) ==
    /\ view = "editor"
    /\ id \in ShownIds("file")
    /\ activeFileId' = id
    /\ UNCHANGED <<importVars, previewVars, projects, view, activeProjectId,
                   isCompiling, logs, compileTimer, saveVars, aiVars,
                   importerVars, load>>

\* acc[node.name] = node: a name that is a key already keeps its place
\* among the keys and gets the new value.  The name "__proto__" is the
\* accessor of Object.prototype: the assignment sets the prototype of acc
\* and adds no key.  Names are not array indices, which Object.keys
\* orders before every other key.
SetKey(acc, node) ==
    IF Join(node.name) = "__proto__" THEN acc
    ELSE IF \E i \in 1..Len(acc) : acc[i].name = node.name
    THEN [i \in 1..Len(acc) |-> IF acc[i].name = node.name THEN node ELSE acc[i]]
    ELSE Append(acc, node)

\* flattenProjectFiles(node, acc), src/App.tsx:46-53: the files of the tree
\* under node by name, a later file of the same name replacing an earlier
\* one.
RECURSIVE flattenProjectFiles(_, _)
RECURSIVE FlattenChildren(_, _)
flattenProjectFiles(node, acc) ==
    IF node.type = "file" THEN SetKey(acc, node)
    ELSE IF HasChildren(node) THEN FlattenChildren(node.children, acc)
    ELSE acc

\* node.children.forEach(c => flattenProjectFiles(c, acc))
FlattenChildren(children, acc) ==
    IF children = <<>> THEN acc
    ELSE FlattenChildren(Tail(children), flattenProjectFiles(Head(children), acc))

\* fileMap[name], NoFile when the name is no key
FileNamed(fm, name) ==
    LET hits == {i \in 1..Len(fm) : fm[i].name = name}
    IN  IF hits = {} THEN NoFile ELSE fm[MinOf(hits)]

\* name.endsWith('.tex')
IsTex(name) == name # <<>> /\ Last(name) = ".tex"

\* Find Main File, src/App.tsx:245-255, with allFiles = Object.values(fileMap)
MainFile(files, activeId) ==
    LET fm         == flattenProjectFiles(Root([id |-> "", files |-> files]), <<>>)
        activeNode == findNode(files, activeId)
        texFiles   == {i \in 1..Len(fm) : IsTex(fm[i].name)}
    IN  IF FileNamed(fm, MainTex) # NoFile THEN FileNamed(fm, MainTex)
        ELSE IF activeNode # NoFile /\ IsTex(activeNode.name) THEN activeNode
        ELSE IF texFiles # {} THEN fm[MinOf(texFiles)]
        ELSE NoFile

\* A Recompile button that is never disabled.
RecompileNeverDisabled == FALSE

\* disabled={isCompiling} of the Recompile button, src/App.tsx:391-397
RecompileDisabled == isCompiling

\* handleRecompile up to the setTimeout, src/App.tsx:237-257.  The button
\* is rendered in the editor and disabled while isCompiling.
handleRecompile ==
    /\ view = "editor"
    /\ ~RecompileDisabled
    /\ FindProject(activeProjectId) # Undefined
    /\ isCompiling' = TRUE
    /\ LET activeProject == FindProject(activeProjectId)
           fm            == flattenProjectFiles(Root(activeProject), <<>>)
       IN  compileTimer' = [pending  |-> TRUE,
                            fileMap  |-> fm,
                            allFiles |-> fm,
                            mainFile |-> MainFile(activeProject.files,
                                                  activeFileId)]
    /\ UNCHANGED <<importVars, previewVars, projects, view, activeProjectId,
                   activeFileId, logs, saveVars, aiVars, importerVars, load>>

\* The spellings of a word of three or four letters in either case
Spellings(a, b, c, d) ==
    {"." \o w \o x \o y \o z : w \in a, x \in b, y \in c, z \in d}

\* /\.(png|jpe?g|gif|svg)$/i: the extensions it matches, each letter in
\* either case
ImageExtensions ==
    Spellings({"p", "P"}, {"n", "N"}, {"g", "G"}, {""})
      \cup Spellings({"j", "J"}, {"p", "P"}, {"g", "G"}, {""})
      \cup Spellings({"j", "J"}, {"p", "P"}, {"e", "E"}, {"g", "G"})
      \cup Spellings({"g", "G"}, {"i", "I"}, {"f", "F"}, {""})
      \cup Spellings({"s", "S"}, {"v", "V"}, {"g", "G"}, {""})

\* assets[f.name] = f.content: a name that is a key already keeps its
\* place among the keys and gets the new content.  An assignment of a
\* string to "__proto__" is ignored.
SetAsset(assets, f) ==
    IF Join(f.name) = "__proto__" THEN assets
    ELSE IF \E i \in 1..Len(assets) : assets[i].key = f.name
    THEN [i \in 1..Len(assets) |->
             IF assets[i].key = f.name THEN [key |-> f.name, src |-> f.content]
             ELSE assets[i]]
    ELSE Append(assets, [key |-> f.name, src |-> f.content])

\* 2. Extract Assets (Images), src/App.tsx:263-268: the first n files of
\* allFiles that have content and an image name, by name.
RECURSIVE ExtractAssets(_, _)
ExtractAssets(allFiles, n) ==
    IF n = 0 THEN <<>>
    ELSE LET assets == ExtractAssets(allFiles, n - 1)
             f      == allFiles[n]
         IN  IF /\ ContentOf(f) # <<>>
                /\ f.name # <<>>
                /\ Last(f.name) \in ImageExtensions
             THEN SetAsset(assets, f)
             ELSE assets

WarningLog(mainFile) == [type |-> "warning", file |-> mainFile.name]

InfoLog == [type |-> "info", file |-> <<>>]

ErrorLog == [type |-> "error", file |-> <<>>]

\* A pass that reports the warning and the information both.
CompileLogsBoth(mainFile, resolvedContent) == <<WarningLog(mainFile), InfoLog>>

\* 3. Logs, src/App.tsx:273-292
CompileLogs(mainFile, resolvedContent) ==
    IF ~(\E i \in 1..Len(resolvedContent) : resolvedContent[i] = "\\documentclass")
    THEN <<WarningLog(mainFile)>>
    ELSE <<InfoLog>>

\* A callback that flattens the project as it is when the timer fires.
PassFileMapLive ==
    IF FindProject(activeProjectId) = Undefined THEN compileTimer.fileMap
    ELSE flattenProjectFiles(Root(FindProject(activeProjectId)), <<>>)

\* const fileMap of handleRecompile, which the callback of the timer closes
\* over: the map flattened when the pass was triggered.
PassFileMap == compileTimer.fileMap

\* The callback of the setTimeout of handleRecompile, src/App.tsx:257-297.
\* resolved keeps the last call of resolveLatexImports with the file it
\* was called on, and fileMap the map it was called with.
CompileTimeout ==
    /\ compileTimer.pending
    /\ LET mainFile == compileTimer.mainFile
       IN  IF mainFile # NoFile /\ ContentOf(mainFile) # <<>>
           THEN LET r == resolveLatexImports(mainFile.content, PassFileMap)
                IN  /\ resolved' = [mainFile |-> mainFile] @@ r
                    /\ fileMap' = PassFileMap
                    /\ previewAssets' = ExtractAssets(compileTimer.allFiles,
                                                      Len(compileTimer.allFiles))
                    /\ compiledContent' = r.text
                    /\ logs' = CompileLogs(mainFile, r.text)
                    /\ previewTimer' =
                          IF view = "editor"
                          THEN PreviewEffect(compiledContent', previewAssets')
                          ELSE previewTimer
           ELSE /\ logs' = <<ErrorLog>>
                /\ UNCHANGED <<resolved, fileMap, previewAssets,
                               compiledContent, previewTimer>>
    /\ isCompiling' = FALSE
    /\ compileTimer' = NoTimer
    /\ UNCHANGED <<katexThrows, renderedHtml, projects, view, activeProjectId,
                   activeFileId, saveVars, aiVars, importerVars, load>>

\* The callback of the setTimeout of the Preview's effect,
\* src/unnamed/part_000:201-204: the props the effect ran for are rendered.
\* renderedHtml keeps, next to the html, the props it was rendered from.
PreviewTimeout ==
    /\ previewTimer.pending
    /\ renderedHtml' =
          [run       |-> TRUE,
           text      |-> parseLatexToHtml(previewTimer.latexCode,
                                          previewTimer.assetMap, katexThrows),
           latexCode |-> previewTimer.latexCode,
           assetMap  |-> previewTimer.assetMap]
    /\ previewTimer' = NoTimer
    /\ UNCHANGED <<importVars, appVars, compiledContent, previewAssets,
                   katexThrows>>

\* What the editor types into the selected file.
EditorTexts ==
    { <<"z0", "\\input", "{", "A", "}", "z1">> }

MaxEdited == 1

\* The projects whose files the user of the session types into.
EditedProjects == {"p1"}

\* The nodes of a tree, at any depth.
RECURSIVE NodesOf(_)
NodesOf(nodes) ==
    IF nodes = <<>> THEN {}
    ELSE {Head(nodes)}
           \cup (IF HasChildren(Head(nodes)) THEN NodesOf(Head(nodes).children)
                 ELSE {})
           \cup NodesOf(Tail(nodes))

\* The files of the session that hold a text the editor has typed.
EditedFiles ==
    UNION {{n.id : n \in {m \in NodesOf(projects[i].files) :
                             m.type = "file" /\ m.content \in EditorTexts}} :
             i \in 1..Len(projects)}

\* updateNodeInTree(nodes, nodeId, changes), src/App.tsx:55-61: the node
\* with this id becomes { ...node, ...changes }, at any depth.
RECURSIVE updateNodeInTree(_, _, _)
updateNodeInTree(nodes, nodeId, changes) ==
    [j \in 1..Len(nodes) |->
        IF nodes[j].id = nodeId
        THEN [f \in DOMAIN nodes[j] \cup DOMAIN changes |->
                 IF f \in DOMAIN changes THEN changes[f] ELSE nodes[j][f]]
        ELSE IF HasChildren(nodes[j])
        THEN [nodes[j] EXCEPT
                !.children = updateNodeInTree(@, nodeId, changes)]
        ELSE nodes[j]]

\* The calls of saveProjectsToBin the session lets be in flight at once.
MaxRequests == 2

\* triggerSave up to the setTimeout, src/hooks/useProjects.ts:157-161: the
\* pending timer is cleared and a new one is set.
triggerSave ==
    /\ status' = "saving"
    /\ saveTimer' = TRUE
    /\ UNCHANGED <<stored, saveRequests>>

\* updateProjects(newProjects, immediateSave), src/hooks/useProjects.ts:177-192.
\* projectsRef.current is set with the state and is equal to it between
\* handlers.
updateProjects(newProjects, immediateSave) ==
    /\ projects' = newProjects
    /\ IF immediateSave
       THEN /\ saveTimer' = FALSE
            /\ status' = "saving"
            /\ stored' = [written |-> TRUE, list |-> newProjects]
            /\ saveRequests' = saveRequests + 1
       ELSE triggerSave

\* addProject(project) of a rendering whose list of projects is seen.
addProject(seen, project) == updateProjects(<<project>> \o seen, TRUE)

\* updateProject(updatedProject) of a rendering whose list of projects is
\* seen: seen.map(p => p.id === id ? updated : p)
updateProject(seen, updatedProject) ==
    updateProjects([i \in 1..Len(seen) |->
                       IF seen[i].id = updatedProject.id THEN updatedProject
                       ELSE seen[i]],
                   FALSE)

\* deleteProject(id): projects.filter(p => p.id !== id)
deleteProject(id) ==
    updateProjects(SelectSeq(projects, LAMBDA p : p.id # id), TRUE)

\* The callback of the setTimeout of triggerSave up to its await,
\* src/hooks/useProjects.ts:162-167.
SaveTimeout ==
    /\ saveTimer
    /\ saveRequests < MaxRequests
    /\ saveTimer' = FALSE
    /\ stored' = [written |-> TRUE, list |-> projects]
    /\ saveRequests' = saveRequests + 1
    /\ UNCHANGED <<importVars, previewVars, projects, view, activeProjectId,
                   activeFileId, isCompiling, logs, compileTimer, status,
                   aiVars, importerVars, load>>

\* A call of saveProjectsToBin settles: setStatus('saved') after the await
\* or in then, setStatus('error') in catch.
SaveSettles(ok) ==
    /\ saveRequests > 0
    /\ saveRequests' = saveRequests - 1
    /\ status' = IF ok THEN "saved" ELSE "error"
    /\ UNCHANGED <<importVars, previewVars, projects, view, activeProjectId,
                   activeFileId, isCompiling, logs, compileTimer, saveTimer,
                   stored, aiVars, importerVars, load>>

\* What the catch of the load effect sets, src/hooks/useProjects.ts:125-146:
\* the list of localStorage when it parses to an array that is not empty,
\* else the initial project.
LocalFallback ==
    IF stored.written /\ stored.list # <<>> THEN stored.list
    ELSE <<INITIAL_PROJECT>>

\* The load effect after its await, src/hooks/useProjects.ts:112-155: the
\* fetch has resolved (ok) or thrown.  The list it sets replaces the one
\* of the state and of projectsRef, so the arrays of a project that was
\* added before are in no list any more, and the status becomes 'saved'
\* whatever the hook was doing.
LoadSettles(ok) ==
    /\ load.pending
    /\ projects' = IF ~ok THEN LocalFallback
                   ELSE IF load.data = <<>> THEN <<INITIAL_PROJECT>>
                   ELSE load.data
    /\ status' = "saved"
    /\ load' = NoTimer
    /\ fileReaders' =
          IF importTimer.pending THEN fileReaders
          ELSE {IF r.attached
                THEN [r EXCEPT !.attached = FALSE, !.inAI = aiRequest.pending]
                ELSE r : r \in fileReaders}
    /\ UNCHANGED <<importVars, previewVars, view, activeProjectId,
                   activeFileId, isCompiling, logs, compileTimer, saveTimer,
                   stored, saveRequests, aiVars, importTimer, created>>

\* The folder with the id nodeId lies on the path parts from level.
RECURSIVE OnPath(_, _, _)
OnPath(level, parts, nodeId) ==
    /\ parts # <<>>
    /\ LET hits == {i \in 1..Len(level) :
                       level[i].type = "folder" /\ level[i].name = Head(parts)}
       IN  /\ hits # {}
           /\ \/ level[MinOf(hits)].id = nodeId
              \/ OnPath(level[MinOf(hits)].children, Tail(parts), nodeId)

\* The FileReaders of an import once updateNodeInTree has rebuilt the tree
\* of project around the node nodeId: nodes.map returns new arrays, and a
\* folder that is copied gets a new array of children, while the node with
\* the id keeps the array it had.  A reader whose array is no longer in
\* the tree pushes to an array that only a pending AI request may hold.
Detached(project, nodeId) ==
    {IF /\ r.projId = project.id
        /\ r.attached
        /\ ~OnPath(project.files, r.parts, nodeId)
     THEN [r EXCEPT !.attached = FALSE, !.inAI = aiRequest.pending]
     ELSE r : r \in fileReaders}

\* The body of handleFileChange, src/App.tsx:187-201, in a rendering with
\* this active project, this selected file and this list of projects.
fileChange(seen, activeProject, fileId, newContent) ==
    updateProject(seen, [activeProject EXCEPT !.files =
                            updateNodeInTree(@, fileId,
                                             [content |-> newContent])])

\* handleFileChange called by the Editor, which is rendered when the
\* selected node is a file of the open project (src/App.tsx:373, 455-456).
handleFileChange(newContent) ==
    /\ view = "editor"
    /\ LET activeProject == FindProject(activeProjectId)
       IN  /\ activeProject # Undefined
           /\ findNode(activeProject.files, activeFileId) # NoFile
           /\ findNode(activeProject.files, activeFileId).type = "file"
           /\ fileChange(projects, activeProject, activeFileId, newContent)
           /\ fileReaders' = Detached(activeProject, activeFileId)
    /\ UNCHANGED <<importVars, previewVars, view, activeProjectId,
                   activeFileId, isCompiling, logs, compileTimer, aiVars,
                   importTimer, created, load>>

\* The session types into the projects of EditedProjects, and into at
\* most MaxEdited of their files.
MayType ==
    /\ activeProjectId \in EditedProjects
    /\ activeFileId \in EditedFiles \/ Cardinality(EditedFiles) < MaxEdited

\* handleToggleFolder(nodeId), src/App.tsx:203-213, which the Sidebar calls
\* on a click on a folder it shows (src/unnamed/part_002:57).
handleToggleFolder(nodeId) ==
    /\ view = "editor"
    /\ LET activeProject == FindProject(activeProjectId)
           node          == findNode(activeProject.files, nodeId)
       IN  /\ activeProject # Undefined
           /\ node # NoFile
           /\ updateProject(projects,
                  [activeProject EXCEPT !.files =
                      updateNodeInTree(@, nodeId, [isOpen |-> ~IsOpen(node)])])
           /\ fileReaders' = Detached(activeProject, nodeId)
    /\ UNCHANGED <<importVars, previewVars, view, activeProjectId,
                   activeFileId, isCompiling, logs, compileTimer, aiVars,
                   importTimer, created, load>>

\* enum AIAction, src/unnamed/part_004:26-31
AIActions == {"FIX_ERRORS", "EXPLAIN", "GENERATE", "OPTIMIZE"}

\* An argument that is not passed, or a property that is not set
\* (undefined), and one that holds a text.
Absent == [given |-> FALSE]

Given(text) == [given |-> TRUE, text |-> text]

\* The values of the optional parameter prompt of handleAIAction: not
\* passed, the empty string, and a request typed into the panel.
Prompts == {Absent, Given(<<>>), Given(<<"q0">>)}

\* prompt as a condition: it is passed and not the empty string.
Truthy(prompt) == prompt.given /\ prompt.text # <<>>

\* What the buttons of the panel pass, src/components/AIPanel.tsx:14-19, 29
\* and 37: Fix Errors and Optimize pass the action alone, and Generate
\* passes a prompt that is not blank.
PanelCalls ==
    {<<action, Absent>> : action \in {"FIX_ERRORS", "OPTIMIZE"}}
      \cup {<<"GENERATE", prompt>> : prompt \in {q \in Prompts : Truthy(q)}}

\* The calls of handleAIAction of the session: those of the panel, every
\* action without a prompt, and GENERATE with the empty prompt.
AICalls ==
    PanelCalls \cup {<<action, Absent>> : action \in AIActions}
               \cup {<<"GENERATE", Given(<<>>)>>}

\* The three grave accents that open and close a block of code.
Fence == <<"&grave;", "&grave;", "&grave;">>

\* response.text of the replies of the service in the session: no text, a
\* blank text, a text, a text in a block of code, and a block that is
\* closed on the line it is opened on.
AIReplies ==
    {Absent,
     Given(<<" ", "\n">>),
     Given(<<"r0">>),
     Given(Fence \o <<"latex", "\n", "r0", "\n">> \o Fence),
     Given(Fence \o <<"latex", "\n">> \o Fence)}

\* text.replace(/^```latex\n/, '').replace(/^```\n/, '').replace(/\n```$/, ''),
\* src/services/geminiService.ts:50
StripFences(text) ==
    LET opened == Fence \o <<"latex", "\n">>
        plain  == Fence \o <<"\n">>
        closed == <<"\n">> \o Fence
        s1     == IF OccursAt(text, opened, 1)
                  THEN SubSeq(text, Len(opened) + 1, Len(text)) ELSE text
        s2     == IF OccursAt(s1, plain, 1)
                  THEN SubSeq(s1, Len(plain) + 1, Len(s1)) ELSE s1
    IN  IF OccursAt(s2, closed, Len(s2) - Len(closed) + 1)
        THEN SubSeq(s2, 1, Len(s2) - Len(closed)) ELSE s2

\* w without the white space at its end
RECURSIVE TrimEnd(_)
TrimEnd(w) ==
    IF w # <<>> /\ Last(w) \in WhiteSpace
    THEN TrimEnd(SubSeq(w, 1, Len(w) - 1)) ELSE w

\* What processLatexWithAI resolves to when the service has replied with
\* response, src/services/geminiService.ts:47-52: response.text || "", the
\* fences stripped, trimmed.  Its arguments code, action and promptDetails
\* go into the request.
processLatexWithAI(response) ==
    LET text == IF response.given THEN response.text ELSE <<>>
    IN  TrimEnd(TrimStart(StripFences(text)))

\* The texts of the files of the workspace as they are loaded.
LoadedTexts ==
    UNION {{n.content : n \in {m \in NodesOf(WorkspaceProjects[i].files) :
                                  m.type = "file"}} :
             i \in 1..Len(WorkspaceProjects)}

\* The files the session lets hold a text that an AI request wrote.
MaxGenerated == 1

\* The session asks the AI about the projects of EditedProjects, while
\* fewer than MaxGenerated of the files of the open project hold a text
\* that is neither loaded nor typed.
MayAsk ==
    /\ activeProjectId \in EditedProjects
    /\ Cardinality({n \in NodesOf(FindProject(activeProjectId).files) :
                       /\ n.type = "file"
                       /\ n.content \notin LoadedTexts \cup EditorTexts})
          < MaxGenerated

\* handleAIAction(action, prompt) up to its await, src/App.tsx:300-312.
\* The buttons of the panel are disabled while aiProcessing.  The rest of
\* the function closes over its parameters and over the file, the project
\* and the list of projects of this rendering.
handleAIAction(action, prompt) ==
    /\ view = "editor"
    /\ ~aiProcessing
    /\ LET activeProject == FindProject(activeProjectId)
           currentFile   == findNode(activeProject.files, activeFileId)
       IN  /\ activeProject # Undefined
           /\ currentFile # NoFile
           /\ ContentOf(currentFile) # <<>>
           /\ aiRequest' = [pending       |-> TRUE,
                            action        |-> action,
                            prompt        |-> prompt,
                            currentFile   |-> currentFile,
                            activeProject |-> activeProject,
                            activeFileId  |-> activeFileId,
                            projects      |-> projects]
    /\ aiProcessing' = TRUE
    /\ UNCHANGED <<importVars, previewVars, projects, view, activeProjectId,
                   activeFileId, isCompiling, logs, compileTimer, saveVars,
                   importerVars, load>>

\* The rest of handleAIAction after the await, src/App.tsx:308-323: the
\* call has resolved (ok) to what the reply response gives, or thrown.
\* GENERATE with a prompt appends the result to the content of the file,
\* EXPLAIN shows it, and every other call replaces the content by it.  The
\* list the request wrote holds the arrays its rendering had, and a tree
\* rebuilt around the file.
AIResponds(ok, response) ==
    /\ aiRequest.pending
    /\ IF ok /\ aiRequest.action # "EXPLAIN"
       THEN /\ LET result == processLatexWithAI(response)
               IN  fileChange(aiRequest.projects, aiRequest.activeProject,
                              aiRequest.activeFileId,
                              IF /\ aiRequest.action = "GENERATE"
                                 /\ Truthy(aiRequest.prompt)
                              THEN aiRequest.currentFile.content
                                      \o <<"\n", "\n">> \o result
                              ELSE result)
            /\ fileReaders' =
                  {IF r.projId = aiRequest.activeProject.id
                   THEN [r EXCEPT !.attached = FALSE, !.inAI = FALSE]
                   ELSE [r EXCEPT !.attached = r.attached \/ r.inAI,
                                  !.inAI = FALSE] : r \in fileReaders}
       ELSE /\ fileReaders' = {[r EXCEPT !.inAI = FALSE] : r \in fileReaders}
            /\ UNCHANGED <<projects, saveVars>>
    /\ aiProcessing' = FALSE
    /\ aiRequest' = NoTimer
    /\ UNCHANGED <<importVars, previewVars, view, activeProjectId,
                   activeFileId, isCompiling, logs, compileTimer, importTimer,
                   created, load>>

\* The projects the session lets be created or imported.
MaxCreated == 2

\* Date.now().toString() of the next project
NewId == "n" \o ToString(created + 1)

\* The content of main.tex in a blank project
BlankMain ==
    <<"\\documentclass", "{", "article", "}", "\n", "\\begin{document}", "\n",
      "Hello World", "\n", "\\end{document}">>

\* handleCreateProject, src/App.tsx:80-99: addProject and handleOpenProject
\* are those of the rendering of the dashboard that was clicked.
handleCreateProject ==
    /\ view = "dashboard"
    /\ created < MaxCreated
    /\ saveRequests < MaxRequests
    /\ LET newProj == [id    |-> NewId,
                       files |-> <<File(NewId \o "/main", MainTex, BlankMain)>>]
       IN  /\ addProject(projects, newProj)
           /\ openProject(projects, newProj.id)
    /\ created' = created + 1
    /\ UNCHANGED <<importVars, previewAssets, katexThrows, isCompiling, logs,
                   compileTimer, aiVars, importTimer, fileReaders, load>>

\* handleDeleteProject, src/App.tsx:183-185
handleDeleteProject(id) ==
    /\ view = "dashboard"
    /\ saveRequests < MaxRequests
    /\ FindProject(id) # Undefined
    /\ deleteProject(id)
    /\ UNCHANGED <<importVars, previewVars, view, activeProjectId,
                   activeFileId, isCompiling, logs, compileTimer, aiVars,
                   importerVars, load>>

\* The file lists the session selects for import: files picked one by one,
\* and a folder picked with a file next to a sub-folder.  A file has the
\* folders of its webkitRelativePath, its name and the content its
\* FileReader loads.
ImportLists ==
    { << [path |-> <<>>, name |-> MainTex, content |-> <<"i0">>],
         [path |-> <<>>, name |-> <<"B", ".tex">>, content |-> <<"i1">>] >>,
      << [path |-> << <<"d">> >>, name |-> MainTex, content |-> <<"i0">>],
         [path |-> << <<"d">>, <<"s">> >>, name |-> <<"B", ".tex">>,
          content |-> <<"i1">>] >> }

\* getOrCreateFolder along the parts of a path, src/App.tsx:105-118 and
\* 127-132: level with a folder for every part.  A new folder has the id
\* of its parent followed by its name, which stands for the random id.
RECURSIVE WithFolders(_, _, _)
WithFolders(level, parts, parentId) ==
    IF parts = <<>> THEN level
    ELSE LET hits   == {i \in 1..Len(level) :
                          level[i].type = "folder" /\ level[i].name = Head(parts)}
             pushed == IF hits # {} THEN level
                       ELSE Append(level,
                                   Folder(parentId \o "/" \o Join(Head(parts)),
                                          Head(parts), FALSE, <<>>))
             k      == IF hits # {} THEN MinOf(hits) ELSE Len(level) + 1
         IN  [pushed EXCEPT
                ![k].children = WithFolders(@, Tail(parts), pushed[k].id)]

\* rootChildren after the forEach over the first n files of the list
RECURSIVE RootChildren(_, _, _)
RootChildren(fileList, n, projId) ==
    IF n = 0 THEN <<>>
    ELSE WithFolders(RootChildren(fileList, n - 1, projId), fileList[n].path,
                     projId)

\* handleImportProject up to the setTimeout, src/App.tsx:101-152: the
\* folders are created and a FileReader is started for every file.  A
\* reader keeps the array it pushes to (parts, the path of the array from
\* the root of the import or of the project; attached, the array is in the
\* tree; inAI, a pending AI request holds it).  The session runs one import
\* at a time.
handleImportProject(fileList) ==
    /\ view = "dashboard"
    /\ created < MaxCreated
    /\ ~importTimer.pending
    /\ fileReaders = {}
    /\ importTimer' = [pending      |-> TRUE,
                       newProjId    |-> NewId,
                       rootChildren |-> RootChildren(fileList, Len(fileList),
                                                     NewId),
                       projects     |-> projects]
    /\ fileReaders' = {[projId |-> NewId, index |-> i, file |-> fileList[i],
                        parts |-> fileList[i].path, attached |-> TRUE,
                        inAI |-> FALSE] :
                          i \in 1..Len(fileList)}
    /\ created' = created + 1
    /\ UNCHANGED <<importVars, previewVars, projects, view, activeProjectId,
                   activeFileId, isCompiling, logs, compileTimer, saveVars,
                   aiVars, load>>

\* currentLevel.push(node), for the array at the path parts from level
RECURSIVE PushAt(_, _, _)
PushAt(level, parts, node) ==
    IF parts = <<>> THEN Append(level, node)
    ELSE LET hits == {i \in 1..Len(level) :
                        level[i].type = "folder" /\ level[i].name = Head(parts)}
         IN  IF hits = {} THEN level
             ELSE [level EXCEPT
                     ![MinOf(hits)].children = PushAt(@, Tail(parts), node)]

\* The list seen with node pushed to the array at parts of the project
\* projId.
PushedTo(seen, projId, parts, node) ==
    [i \in 1..Len(seen) |->
        IF seen[i].id = projId
        THEN [seen[i] EXCEPT !.files = PushAt(@, parts, node)]
        ELSE seen[i]]

\* reader.onload, src/App.tsx:137-145: the file is pushed to the array of
\* its level, which after the timer is an array of the imported project in
\* every list that holds it.
FileLoaded(reader) ==
    /\ reader \in fileReaders
    /\ fileReaders' = fileReaders \ {reader}
    /\ LET node == File(reader.projId \o "/" \o ToString(reader.index),
                        reader.file.name, reader.file.content)
       IN  IF importTimer.pending
           THEN /\ importTimer' =
                      [importTimer EXCEPT
                         !.rootChildren = PushAt(@, reader.parts, node)]
                /\ UNCHANGED <<projects, aiRequest>>
           ELSE /\ projects' =
                      IF reader.attached
                      THEN PushedTo(projects, reader.projId, reader.parts, node)
                      ELSE projects
                /\ aiRequest' =
                      IF aiRequest.pending /\ (reader.attached \/ reader.inAI)
                      THEN [aiRequest EXCEPT
                              !.projects = PushedTo(@, reader.projId,
                                                    reader.parts, node),
                              !.activeProject =
                                 PushedTo(<<@>>, reader.projId, reader.parts,
                                          node)[1]]
                      ELSE aiRequest
                /\ UNCHANGED importTimer
    /\ UNCHANGED <<importVars, previewVars, view, activeProjectId,
                   activeFileId, isCompiling, logs, compileTimer, saveVars,
                   aiProcessing, created, load>>

ImportedLog == [type |-> "info", file |-> <<"imported">>]

\* rootChildren.length === 1 && rootChildren[0].type === 'folder',
\* src/App.tsx:158
Unwrapped(rootChildren) ==
    Len(rootChildren) = 1 /\ rootChildren[1].type = "folder"

\* finalChildren, src/App.tsx:155-161
FinalChildren(rootChildren) ==
    IF ~Unwrapped(rootChildren) THEN rootChildren
    ELSE IF HasChildren(rootChildren[1]) THEN rootChildren[1].children
    ELSE <<>>

\* The callback of the setTimeout of handleImportProject, src/App.tsx:154-180:
\* a list whose only node is a folder gives the project of that folder's
\* children, and the readers of the root array push to an array that is
\* in no project.  addProject and handleOpenProject are those of the
\* rendering in which the import was started.
ImportTimeout ==
    /\ importTimer.pending
    /\ saveRequests < MaxRequests
    /\ LET rootChildren  == importTimer.rootChildren
           unwrapped     == Unwrapped(rootChildren)
           finalChildren == FinalChildren(rootChildren)
           newProj       == [id    |-> importTimer.newProjId,
                             files |-> finalChildren]
       IN  /\ addProject(importTimer.projects, newProj)
           /\ openProject(importTimer.projects, newProj.id)
           /\ fileReaders' =
                 {IF ~unwrapped THEN r
                  ELSE IF r.parts = <<>> THEN [r EXCEPT !.attached = FALSE]
                  ELSE [r EXCEPT !.parts = Tail(@)] : r \in fileReaders}
    /\ logs' = <<ImportedLog>>
    /\ importTimer' = NoTimer
    /\ UNCHANGED <<importVars, previewAssets, katexThrows, isCompiling,
                   compileTimer, aiVars, created, load>>

(***************************************************************************)
(* The import resolver: a project of four .tex files, one of them in a     *)
(* folder, whose contents grow by the inclusion directives the editor      *)
(* types, and one pass of Recompile with the entry A.tex selected.         *)
(***************************************************************************)
MaxIncludes == 4

FileLetters == {"A", "B", "C", "D"}

FileName(l) == <<l, ".tex">>

\* The running text of a file: its own letter in lower case, numbered by
\* the directives that precede it ("a0", "a1", ...), so that every piece of
\* text of the project is a different lexeme.
LowerOf(l) ==
    CASE l = "A" -> "a" [] l = "B" -> "b" [] l = "C" -> "c" [] l = "D" -> "d"

TextOf(l, k) == LowerOf(l) \o ToString(k)

\* The directives the editor types: a target per file and one target, M,
\* that names no file.  The spellings cover both commands, a path with a
\* folder and a path that already has its extension.
Targets == FileLetters \cup {"M"}

Directive(t) ==
    CASE t = "A" -> <<"\\input", "{", "A", "}">>
      [] t = "B" -> <<"\\input", "{", "B", "}">>
      [] t = "C" -> <<"\\include", "{", "C", ".tex", "}">>
      [] t = "D" -> <<"\\input", "{", "s", "/", "D", "}">>
      [] t = "M" -> <<"\\include", "{", "M", "}">>

NumDirectives(content) ==
    Cardinality({i \in 1..Len(content) : content[i] \in ImportCommands})

RECURSIVE SumDirectives(_, _)
SumDirectives(fm, names) ==
    IF names = {} THEN 0
    ELSE LET n == CHOOSE n \in names : TRUE
         IN  NumDirectives(fm[n].content) + SumDirectives(fm, names \ {n})

\* The index of the next directive command at or after i, or 0.
NextCommand(s, i) == MinOf({m \in i..Len(s) : s[m] \in ImportCommands})

RECURSIVE TargetsFrom(_, _)
TargetsFrom(s, i) ==
    LET m == NextCommand(s, i)
        k == IndexFrom(s, "}", m)
    IN  IF m = 0 \/ k = 0 THEN <<>>
        ELSE <<ImportFilename(SubSeq(s, m + 2, k - 1))>> \o TargetsFrom(s, k + 1)

\* The files a content names in its directives, in textual order.
DirectiveTargets(content) == TargetsFrom(content, 1)

\* The files the entry reaches through directives: the only files whose
\* content resolveLatexImports reads.
RECURSIVE ReachedFrom(_, _)
ReachedFrom(fm, S) ==
    LET more == {fm[k].name : k \in {i \in 1..Len(fm) : \E n \in S :
                    \E j \in 1..Len(DirectiveTargets(FileNamed(fm, n).content)) :
                        DirectiveTargets(FileNamed(fm, n).content)[j]
                           = fm[i].name}}
    IN  IF more \subseteq S THEN S ELSE ReachedFrom(fm, S \cup more)

FileId(l) == "q/" \o l

\* The project of the four files; D.tex lies in the folder s.
ImportsProject ==
    [id |-> "q", files |->
       << File(FileId("A"), FileName("A"), <<TextOf("A", 0)>>),
          File(FileId("B"), FileName("B"), <<TextOf("B", 0)>>),
          File(FileId("C"), FileName("C"), <<TextOf("C", 0)>>),
          Folder("q/s", <<"s">>, TRUE,
                 << File(FileId("D"), FileName("D"), <<TextOf("D", 0)>>) >>) >>]

InitImports ==
    /\ Mounted(<<ImportsProject>>, NotWritten)
    /\ katexThrows = {}

\* The files of the project as they are now, by name.
TypedFiles == flattenProjectFiles(Root(FindProject(ImportsProject.id)), <<>>)

ReachedLetters ==
    {l \in FileLetters : FileName(l) \in ReachedFrom(TypedFiles, {FileName("A")})}

\* What the editor holds once a directive and a piece of text are appended
\* to the file l.
WithDirective(l, t) ==
    LET content == FileNamed(TypedFiles, FileName(l)).content
    IN  content \o Directive(t) \o <<TextOf(l, NumDirectives(content) + 1)>>

\* The pass has not been triggered.
BeforeThePass == ~compileTimer.pending /\ resolved = NotRun

\* The editor opens the project, selects files and appends directives to
\* the files the entry reaches, up to MaxIncludes in all; then Recompile is
\* clicked with the entry selected, and the timer of the pass fires.
NextImports ==
    \/ LoadSettles(TRUE)
    \/ handleOpenProject(ImportsProject.id)
    \/ /\ BeforeThePass
       /\ \E l \in ReachedLetters : SelectFile(FileId(l))
    \/ /\ BeforeThePass
       /\ SumDirectives(TypedFiles, DOMAIN TypedFiles) < MaxIncludes
       /\ \E l \in FileLetters, t \in Targets :
             /\ activeFileId = FileId(l)
             /\ l \in ReachedLetters
             /\ handleFileChange(WithDirective(l, t))
    \/ BeforeThePass /\ activeFileId = FileId("A") /\ handleRecompile
    \/ CompileTimeout

SpecImports == InitImports /\ [][NextImports]_vars

(***************************************************************************)
(* Properties of the import resolver.  resolved is the result of the pass, *)
(* fileMap the files it was called with.                                   *)
(***************************************************************************)
EntryName == resolved.mainFile.name

EntryContent == resolved.mainFile.content

\* The content the editor has typed into file l when its directives name
\* the targets ts, in this order.
RECURSIVE Typed(_, _)
Typed(l, ts) ==
    IF ts = <<>> THEN <<TextOf(l, 0)>>
    ELSE Typed(l, SubSeq(ts, 1, Len(ts) - 1))
            \o Directive(Last(ts)) \o <<TextOf(l, Len(ts))>>

FileIncludes(l, ts) == FileNamed(fileMap, FileName(l)).content = Typed(l, ts)

LoopText == <<"%", " Recursive loop detected: ">>

MissingText == <<"%", " Missing file: ">>

\* s without the occurrences of pat, scanned from the left.
RECURSIVE RemoveFrom(_, _, _)
RemoveFrom(s, pat, i) ==
    LET m == NextOccurrence(s, pat, i)
    IN  IF m = 0 THEN SubSeq(s, i, Len(s))
        ELSE SubSeq(s, i, m - 1) \o RemoveFrom(s, pat, m + Len(pat))

RemoveAll(s, pat) == RemoveFrom(s, pat, 1)

CycleAB ==
    /\ resolved.run
    /\ EntryName = FileName("A")
    /\ FileIncludes("A", <<"B">>)
    /\ FileIncludes("B", <<"A">>)

\* C1: when A includes B and B includes A, the text resolved from the entry
\* A holds exactly one "Recursive loop detected" marker.
C1_CycleOneMarker == CycleAB => Count(resolved.text, LoopText) = 1

C1_Witness ==
    /\ CycleAB
    /\ Includes(resolved.text, LoopMarker(FileName("B")))
    /\ Includes(resolved.text, BeginMarker(FileName("A")))

Diamond ==
    /\ resolved.run
    /\ EntryName = FileName("A")
    /\ FileIncludes("A", <<"B", "C">>)
    /\ FileIncludes("B", <<"D">>)
    /\ FileIncludes("C", <<"D">>)
    /\ FileIncludes("D", <<>>)

\* C2: in the diamond A -> {B, C} -> D the output holds D's content twice,
\* once inside B's expansion and once inside C's, and no loop marker; and in
\* every resolution the processed set a directive is checked against holds
\* the files of its own branch only (one per nesting level), never a file
\* added by the expansion of a sibling.
C2_DiamondTwice ==
    /\ Diamond =>
          /\ Count(resolved.text, FileNamed(fileMap, FileName("D")).content) = 2
          /\ Count(resolved.text, BeginMarker(FileName("D"))) = 2
          /\ Count(resolved.text, LoopText) = 0
          /\ \A i \in 1..Len(resolved.calls) :
                resolved.calls[i].name = FileName("D") =>
                    resolved.calls[i].processed \in
                        {{FileName("B")}, {FileName("C")}}
    /\ resolved.run =>
          \A i \in 1..Len(resolved.calls) :
              Cardinality(resolved.calls[i].processed)
                  = resolved.calls[i].depth - 1

C2_Witness ==
    /\ Diamond
    /\ Includes(resolved.text,
           BeginMarker(FileName("C")) \o <<"c0">> \o BeginMarker(FileName("D")))

\* The project without its directives for M, the target that names no file.
WithoutMissing(fm) ==
    [n \in DOMAIN fm |->
        [fm[n] EXCEPT !.content = RemoveAll(@, Directive("M"))]]

NumMissingCalls ==
    Cardinality({i \in 1..Len(resolved.calls) :
                    resolved.calls[i].name = FileName("M")})

\* C9: a directive whose target is not found becomes a "Missing file: M.tex"
\* marker, one per such directive handled, and the rest of the output is
\* what the same project yields without those directives: every other
\* directive, before or after, is expanded as usual.
C9_MissingInPlace ==
    resolved.run =>
        /\ Count(resolved.text, MissingMarker(FileName("M"))) = NumMissingCalls
        /\ Count(resolved.text, MissingText) = NumMissingCalls
        /\ RemoveAll(resolved.text, MissingMarker(FileName("M")))
             = resolveLatexImports(
                  FileNamed(WithoutMissing(fileMap), EntryName).content,
                  WithoutMissing(fileMap)).text
        /\ OccursAt(EntryContent, Directive("M"), 2) =>
               OccursAt(resolved.text, MissingMarker(FileName("M")), 2)

C9_Witness ==
    /\ resolved.run
    /\ FileIncludes("A", <<"B", "M", "C">>)
    /\ Includes(resolved.text,
           EndMarker(FileName("B")) \o <<"a1">> \o MissingMarker(FileName("M"))
              \o <<"a2">> \o BeginMarker(FileName("C")))

\* The name a marker starting at index i of s carries: the lexemes up to
\* the end of the marker's line.
MarkerName(s, i) == SubSeq(s, i + 3, IndexFrom(s, "\n", i + 3) - 1)

IsMarkerAt(s, i, word) == OccursAt(s, <<"\n", "%", word>>, i)

\* The first index after i at which the End marker of name ends, or 0.
EndOfExpansion(s, i, name) ==
    LET ends == {k \in i..Len(s) : OccursAt(s, EndMarker(name), k)}
    IN  IF ends = {} THEN 0
        ELSE (CHOOSE k \in ends : \A m \in ends : k <= m)
                 + Len(EndMarker(name)) - 1

\* The output with every top-level replacement (an expansion from its Begin
\* marker to its End marker, a loop marker, a missing-file marker) folded
\* back into one placeholder.
RECURSIVE Collapse(_, _)
Collapse(s, i) ==
    LET m == NextOccurrence(s, <<"\n", "%">>, i)
    IN  IF m = 0 THEN SubSeq(s, i, Len(s))
        ELSE SubSeq(s, i, m - 1) \o <<"<directive>">> \o
             (IF IsMarkerAt(s, m, " Begin ")
              THEN Collapse(s, EndOfExpansion(s, m, MarkerName(s, m)) + 1)
              ELSE Collapse(s, IndexFrom(s, "\n", m + 3) + 1))

\* The content with every directive replaced by the placeholder.
RECURSIVE Placeholders(_, _)
Placeholders(s, i) ==
    LET m == NextCommand(s, i)
        k == IndexFrom(s, "}", m)
    IN  IF m = 0 \/ k = 0 THEN SubSeq(s, i, Len(s))
        ELSE SubSeq(s, i, m - 1) \o <<"<directive>">> \o Placeholders(s, k + 1)

\* The lexemes of a content outside its directives.
PlainText(content) == RemoveAll(Placeholders(content, 1), <<"<directive>">>)

\* How often the output expands a file: once per Begin marker, and once
\* more for the entry.
Expansions(n) ==
    Count(resolved.text, BeginMarker(n)) + (IF n = EntryName THEN 1 ELSE 0)

\* C10: import resolution changes inclusion directives only.  A text with
\* no directive comes back unchanged; the output is the entry's text with
\* each directive replaced in place; and every lexeme of a file's own text
\* occurs in the output once per expansion of that file.
C10_OnlyDirectivesChange ==
    resolved.run =>
        /\ DirectiveTargets(EntryContent) = <<>> => resolved.text = EntryContent
        /\ Collapse(resolved.text, 1) = Placeholders(EntryContent, 1)
        /\ \A n \in DOMAIN fileMap :
              LET plain == PlainText(fileMap[n].content)
                  times == Expansions(fileMap[n].name)
              IN  \A i \in 1..Len(plain) :
                      CountLexeme(resolved.text, plain[i]) = times

C10_Witness ==
    /\ resolved.run
    /\ FileIncludes("A", <<"B", "B">>)
    /\ FileIncludes("B", <<"C">>)
    /\ CountLexeme(resolved.text, "c0") = 2
    /\ CountLexeme(resolved.text, "a1") = 1

\* The call was expanded: its file was not in the set it was checked
\* against and has content, so resolveLatexImports was called on it.
IsExpanded(call) ==
    /\ call.name \notin call.processed
    /\ FileContent(fileMap, call.name) # <<>>

\* The greatest number of calls of resolveLatexImports that were active at
\* once: the call on the entry is the first, and a directive handled by the
\* d-th nested call starts the (d + 1)-th when it is expanded.
NestedCalls(calls) ==
    MaxOf({1} \cup {IF IsExpanded(calls[j]) THEN calls[j].depth + 1
                    ELSE calls[j].depth : j \in 1..Len(calls)})

\* C17: the resolution of every file set ends, and the calls of
\* resolveLatexImports are never nested deeper than the number of files.
C17_DepthWithinFileCount ==
    resolved.run => NestedCalls(resolved.calls) <= Len(fileMap)

\* The resolution ends with at most one nested call more than there are
\* files: the entry, which starts outside the processed set, is expanded
\* once more inside its own expansion.
DepthWithinFileCountPlusOne ==
    resolved.run => NestedCalls(resolved.calls) <= Len(fileMap) + 1

\* C26: the entry file counts as visited from the start: every directive
\* that targets the entry, in the entry itself or in a file it reaches,
\* yields a loop marker, and the content of the entry is never expanded
\* inside its own expansion.
C26_EntryVisitedFromStart ==
    resolved.run =>
       /\ \A j \in 1..Len(resolved.calls) :
             resolved.calls[j].name = EntryName => ~IsExpanded(resolved.calls[j])
       /\ ~Includes(resolved.text, BeginMarker(EntryName))

\* The text holds one expansion of the entry for every directive that
\* targets it from a chain whose processed set does not hold it yet, and a
\* loop marker for every other directive that targets it.
EntryExpandedWhereUnprocessed ==
    resolved.run =>
       /\ Count(resolved.text, BeginMarker(EntryName)) =
             Cardinality({j \in 1..Len(resolved.calls) :
                            /\ resolved.calls[j].name = EntryName
                            /\ EntryName \notin resolved.calls[j].processed})
       /\ Count(resolved.text, LoopMarker(EntryName)) =
             Cardinality({j \in 1..Len(resolved.calls) :
                            /\ resolved.calls[j].name = EntryName
                            /\ EntryName \in resolved.calls[j].processed})

(***************************************************************************)
(* The preview: a project whose main.tex holds a document is opened, which *)
(* mounts the Preview with the document as its latexCode, and the timer of *)
(* the Preview's effect (src/unnamed/part_000:199-206) fires.  Each        *)
(* specification below starts from a family of documents.                  *)
(***************************************************************************)
\* The project of a document: main.tex, followed by a file for every asset.
DocumentProject(document, assets) ==
    [id |-> "d", files |->
       <<File("d/main", MainTex, document)>>
          \o [i \in 1..Len(assets) |->
                 File("d/" \o ToString(i), assets[i].key, assets[i].src)]]

NextPreview ==
    \/ LoadSettles(TRUE)
    \/ handleOpenProject("d")
    \/ PreviewTimeout

\* The concatenation of the pieces f[1], ..., f[n].
RECURSIVE Flatten(_, _)
Flatten(f, n) == IF n = 0 THEN <<>> ELSE Flatten(f, n - 1) \o f[n]

(***************************************************************************)
(* Headings: documents of up to MaxHeadings headings, one per line, the    *)
(* i-th with the title "t<i>".                                             *)
(***************************************************************************)
MaxHeadings == 4

HeadingKinds ==
    {"chapter", "chapter*", "section", "section*", "subsection", "subsection*"}

HeadingTitle(i) == "t" \o ToString(i)

HeadingLine(kind, i) ==
    CASE kind = "chapter"    -> <<"\\chapter", "{", HeadingTitle(i), "}", "\n">>
      [] kind = "chapter*"   -> <<"\\chapter", "*", "{", HeadingTitle(i), "}", "\n">>
      [] kind = "section"    -> <<"\\section", "{", HeadingTitle(i), "}", "\n">>
      [] kind = "section*"   -> <<"\\section", "*", "{", HeadingTitle(i), "}", "\n">>
      [] kind = "subsection" -> <<"\\subsection", "{", HeadingTitle(i), "}", "\n">>
      [] kind = "subsection*" ->
            <<"\\subsection", "*", "{", HeadingTitle(i), "}", "\n">>

HeadingDocument(kinds) ==
    Flatten([i \in 1..Len(kinds) |-> HeadingLine(kinds[i], i)], Len(kinds))

InitHeadings ==
    /\ \E n \in 0..MaxHeadings : \E kinds \in [1..n -> HeadingKinds] :
          Mounted(<<DocumentProject(HeadingDocument(kinds), <<>>)>>, NotWritten)
    /\ katexThrows = {}

SpecHeadings == InitHeadings /\ [][NextPreview]_vars

(***************************************************************************)
(* Numbering of headings.                                                  *)
(***************************************************************************)
HeadingTags ==
    {"<h1 class=\"text-3xl font-bold mt-8 mb-6 border-b pb-2\">",
     "<h2 class=\"text-2xl font-bold mt-6 mb-4 text-slate-800\">",
     "<h3 class=\"text-xl font-bold mt-4 mb-3 text-slate-700\">"}

\* The heading command at index m of the source carries no star.
IsNumbered(src, m) == src[m + 1] # "*"

HeadingTitleAt(src, m) == src[IndexFrom(src, "{", m) + 1]

\* The numbered chapters of the source up to index m.
ChaptersUpTo(src, m) ==
    Cardinality({q \in 1..m : src[q] = "\\chapter" /\ IsNumbered(src, q)})

\* What the output shows between the opening tag of the heading with this
\* title and the title: the heading's label.
LabelOf(out, title) ==
    LET p == IndexFrom(out, title, 1)
        t == MaxOf({q \in 1..p : out[q] \in HeadingTags})
    IN  SubSeq(out, t + 1, p - 1)

\* C3: numbered chapters are labelled 1, 2, 3 in document order, a starred
\* chapter gets no label and does not advance the chapter counter, and in a
\* document of three numbered chapters the first numbered section after
\* the second chapter and before the third is labelled 2.1.
C3_ChapterAndSectionLabels ==
    renderedHtml.run =>
      LET src == compiledContent
          out == renderedHtml.text
      IN  /\ \A m \in 1..Len(src) : src[m] = "\\chapter" =>
                LabelOf(out, HeadingTitleAt(src, m)) =
                   IF IsNumbered(src, m)
                   THEN <<ToString(ChaptersUpTo(src, m)), ". ">>
                   ELSE <<>>
          /\ \A m \in 1..Len(src) :
                ( /\ src[m] = "\\section"
                  /\ IsNumbered(src, m)
                  /\ ChaptersUpTo(src, Len(src)) = 3
                  /\ ChaptersUpTo(src, m) = 2
                  /\ ~\E q \in 1..(m - 1) :
                        /\ src[q] = "\\section"
                        /\ IsNumbered(src, q)
                        /\ ChaptersUpTo(src, q) = 2 )
                => LabelOf(out, HeadingTitleAt(src, m)) = <<"2", ".", "1", " ">>

\* The chapter labels alone are those of the document order.
ChapterLabelsInOrder ==
    renderedHtml.run =>
      \A m \in 1..Len(compiledContent) : compiledContent[m] = "\\chapter" =>
          LabelOf(renderedHtml.text, HeadingTitleAt(compiledContent, m)) =
             IF IsNumbered(compiledContent, m)
             THEN <<ToString(ChaptersUpTo(compiledContent, m)), ". ">>
             ELSE <<>>

\* The index of the last numbered heading of one of the commands before
\* index m of the source, or 0.
LastNumberedBefore(src, m, cmds) ==
    MaxOf({q \in 1..(m - 1) : src[q] \in cmds /\ IsNumbered(src, q)})

\* The numbered headings with this command from index from on, up to m.
NumberedBetween(src, from, m, cmd) ==
    Cardinality({q \in from..m : src[q] = cmd /\ IsNumbered(src, q)})

\* The last number of a label: what stands before its closing space.
LastNumberOf(label) == IF Len(label) < 2 THEN "" ELSE label[Len(label) - 1]

\* C18: the counters follow the document order: the section number of a
\* numbered section counts the numbered sections since the nearest
\* numbered chapter before it, and the subsection number of a numbered
\* subsection counts the numbered subsections since the nearest numbered
\* section or chapter before it, so that each numbering restarts at 1.
C18_CountersInDocumentOrder ==
    renderedHtml.run =>
      LET src == compiledContent
          out == renderedHtml.text
      IN  /\ \A m \in 1..Len(src) :
                (src[m] = "\\section" /\ IsNumbered(src, m)) =>
                   LastNumberOf(LabelOf(out, HeadingTitleAt(src, m))) =
                      ToString(NumberedBetween(src,
                         LastNumberedBefore(src, m, {"\\chapter"}) + 1, m,
                         "\\section"))
          /\ \A m \in 1..Len(src) :
                (src[m] = "\\subsection" /\ IsNumbered(src, m)) =>
                   LastNumberOf(LabelOf(out, HeadingTitleAt(src, m))) =
                      ToString(NumberedBetween(src,
                         LastNumberedBefore(src, m, {"\\chapter", "\\section"}) + 1,
                         m, "\\subsection"))

\* The same statement for the documents without a chapter and with at most
\* one numbered section: the counters count.
CountersCountWithinOneSection ==
    (renderedHtml.run
       /\ NumberedBetween(compiledContent, 1, Len(compiledContent), "\\chapter") = 0
       /\ NumberedBetween(compiledContent, 1, Len(compiledContent), "\\section") <= 1
       /\ \A m \in 1..Len(compiledContent) :
             compiledContent[m] = "\\subsection" =>
                LastNumberedBefore(compiledContent, m, {"\\section"}) # 0)
      => C18_CountersInDocumentOrder

\* C19: a numbered section is labelled chapter.section when a numbered
\* chapter stands before it in the document and section alone otherwise, a
\* numbered subsection chapter.section.subsection or section.subsection by
\* the same rule, and the chapter number of the label is the number of the
\* nearest numbered chapter before the heading.
C19_LabelForm ==
    renderedHtml.run =>
      LET src == compiledContent
          out == renderedHtml.text
      IN  /\ \A m \in 1..Len(src) :
                (src[m] = "\\section" /\ IsNumbered(src, m)) =>
                   LET label == LabelOf(out, HeadingTitleAt(src, m))
                       n     == ChaptersUpTo(src, m)
                   IN  IF n > 0
                       THEN /\ Len(label) = 4
                            /\ label[1] = ToString(n)
                            /\ label[2] = "."
                       ELSE Len(label) = 2
          /\ \A m \in 1..Len(src) :
                (src[m] = "\\subsection" /\ IsNumbered(src, m)) =>
                   LET label == LabelOf(out, HeadingTitleAt(src, m))
                       n     == ChaptersUpTo(src, m)
                   IN  IF n > 0
                       THEN /\ Len(label) = 6
                            /\ label[1] = ToString(n)
                            /\ label[2] = "."
                            /\ label[4] = "."
                       ELSE /\ Len(label) = 4
                            /\ label[2] = "."

\* The same statement for the documents in which no heading stands before
\* a numbered chapter and there is at most one numbered chapter.
LabelFormAfterTheOnlyChapter ==
    (renderedHtml.run
       /\ NumberedBetween(compiledContent, 1, Len(compiledContent), "\\chapter") <= 1
       /\ \A m \in 1..Len(compiledContent) :
             (compiledContent[m] = "\\chapter" /\ IsNumbered(compiledContent, m)) =>
                \A q \in 1..(m - 1) :
                    compiledContent[q] \notin {"\\section", "\\subsection"})
      => C19_LabelForm

HeadingCommands == {"\\chapter", "\\section", "\\subsection"}

\* The source without the heading line that starts at index m.
WithoutHeading(src, m) ==
    SubSeq(src, 1, m - 1) \o SubSeq(src, IndexFrom(src, "\n", m) + 1, Len(src))

\* C20: a starred heading of any level has an empty label and leaves the
\* counters as they are: every other heading of the document has the label
\* it has in the document without the starred heading.
C20_StarredChangesNothing ==
    renderedHtml.run =>
      LET src == compiledContent
          out == renderedHtml.text
      IN  \A m \in 1..Len(src) :
             (src[m] \in HeadingCommands /\ ~IsNumbered(src, m)) =>
                /\ LabelOf(out, HeadingTitleAt(src, m)) = <<>>
                /\ LET without == parseLatexToHtml(WithoutHeading(src, m),
                                                   previewAssets, katexThrows)
                   IN  \A q \in 1..Len(src) :
                          (src[q] \in HeadingCommands /\ q # m) =>
                             LabelOf(out, HeadingTitleAt(src, q)) =
                                LabelOf(without, HeadingTitleAt(src, q))

\* A document was rendered that has a starred heading of each level, each
\* before a numbered heading.
C20_Witness ==
    /\ renderedHtml.run
    /\ compiledContent = HeadingDocument(<<"section", "section*", "subsection*",
                                           "subsection">>)
    /\ LabelOf(renderedHtml.text, HeadingTitle(4)) = <<"1", ".", "1", " ">>

(***************************************************************************)
(* Images: documents of up to MaxDirectives pieces, each an image          *)
(* directive or a letter of text, rendered against up to MaxAssets assets. *)
(* The asset keys are file names with an image extension, as               *)
(* handleRecompile collects them (src/App.tsx:262-268), in the order of    *)
(* the project's files.                                                    *)
(***************************************************************************)
MaxDirectives == 2

MaxAssets == 3

AssetKeys ==
    {<<"k", ".png">>, <<"k", ".jpg">>, <<"a", "k", ".png">>,
     <<"b", "k", ".gif">>, <<"m", ".jpeg">>}

\* The content of an image file: its data URL, one lexeme per file.
DataOf(key) ==
    CASE key = <<"k", ".png">>      -> <<"data:k.png">>
      [] key = <<"k", ".jpg">>      -> <<"data:k.jpg">>
      [] key = <<"a", "k", ".png">> -> <<"data:ak.png">>
      [] key = <<"b", "k", ".gif">> -> <<"data:bk.gif">>
      [] key = <<"m", ".jpeg">>     -> <<"data:m.jpeg">>

\* The basenames k and m are parts of keys, h and constructor are parts
\* of none; constructor is the name of a property that the assets object
\* inherits.
ImagePieces == {"k", "[w]d/k", "k.png", "s/m", "d/h", "d/constructor", "text"}

ImagePiece(kind, i) ==
    CASE kind = "k"      -> <<"\\includegraphics", "{", "k", "}">>
      [] kind = "[w]d/k" -> <<"\\includegraphics", "[", "w", "]", "{", "d", "/", "k", "}">>
      [] kind = "k.png"  -> <<"\\includegraphics", "{", "k", ".png", "}">>
      [] kind = "s/m"    -> <<"\\includegraphics", "{", "s", "/", "m", "}">>
      [] kind = "d/h"    -> <<"\\includegraphics", "{", "d", "/", "h", "}">>
      [] kind = "d/constructor" ->
            <<"\\includegraphics", "{", "d", "/", "c", "o", "n", "s", "t", "r",
              "u", "c", "t", "o", "r", "}">>
      [] kind = "text"   -> <<"x" \o ToString(i), "\n">>

ImageDocument(kinds) ==
    Flatten([i \in 1..Len(kinds) |-> ImagePiece(kinds[i], i)], Len(kinds))

\* Lists of assets without a repeated key.
AssetLists ==
    UNION {{[i \in 1..n |-> [key |-> keys[i], src |-> DataOf(keys[i])]] :
               keys \in {k \in [1..n -> AssetKeys] :
                            \A i, j \in 1..n : i # j => k[i] # k[j]}} :
           n \in 0..MaxAssets}

InitImages ==
    /\ \E n \in 0..MaxDirectives : \E kinds \in [1..n -> ImagePieces] :
          \E assets \in AssetLists :
             Mounted(<<DocumentProject(ImageDocument(kinds), assets)>>, NotWritten)
    /\ katexThrows = {}

\* The project is opened and recompiled once, which hands the images of
\* the project to the Preview, and the timers fire.
NextImages ==
    \/ LoadSettles(TRUE)
    \/ handleOpenProject("d")
    \/ BeforeThePass /\ handleRecompile
    \/ CompileTimeout
    \/ PreviewTimeout

SpecImages == InitImages /\ [][NextImages]_vars

(***************************************************************************)
(* Properties of the image stage.                                          *)
(***************************************************************************)
\* The directives of the source: the indices of their command lexemes, and
\* the path of the one at m.
DirectivesOf(src) == {m \in 1..Len(src) : src[m] = "\\includegraphics"}

PathAt(src, m) ==
    SubSeq(src, IndexFrom(src, "{", m) + 1, IndexFrom(src, "}", m) - 1)

\* The images and the placeholders of the output, in order.
ElementsOf(out) == {p \in 1..Len(out) : out[p] \in {ImageTagOpen, MissingImageOpen}}

\* The index in the output of the element that stands for the directive at
\* m of the source: the n-th element for the n-th directive.
RECURSIVE NthOf(_, _)
NthOf(S, n) == IF n = 1 THEN MinOf(S) ELSE NthOf(S \ {MinOf(S)}, n - 1)

ElementFor(src, out, m) ==
    NthOf(ElementsOf(out), Cardinality({q \in DirectivesOf(src) : q <= m}))

\* No lookup rule finds an asset for the name.
MatchesNoKey(assets, name) ==
    \A i \in 1..Len(assets) : ~StringIncludes(assets[i].key, name)

\* The source with the directive at m replaced by one lexeme.
WithDirectiveAs(src, m, lexeme) ==
    SubSeq(src, 1, m - 1) \o <<lexeme>>
       \o SubSeq(src, IndexFrom(src, "}", m) + 1, Len(src))

\* The directive at m of the rendered source is replaced by the
\* missing-image marker carrying the name, and the rest of the output is
\* what the document yields with a neutral lexeme at the directive's place.
MarkerStandsFor(m, name) ==
    renderedHtml.text =
       ReplaceLiteral(
          parseLatexToHtml(WithDirectiveAs(renderedHtml.latexCode, m, "@"),
                           renderedHtml.assetMap, katexThrows),
          <<"@">>, MissingImage(name))

\* C7: a directive whose basename matches no asset key is replaced by the
\* missing-image marker carrying the basename, and the rest of the output
\* is what the document yields with a neutral lexeme at the directive's
\* place.
C7_MissingImageMarker ==
    renderedHtml.run =>
      \A m \in DirectivesOf(renderedHtml.latexCode) :
         LET name == Basename(PathAt(renderedHtml.latexCode, m))
         IN  MatchesNoKey(renderedHtml.assetMap, name) => MarkerStandsFor(m, name)

\* The marker is written for every basename that matches no asset key and
\* is not the name of a property the assets object inherits.
MarkerOffThePrototype ==
    renderedHtml.run =>
      \A m \in DirectivesOf(renderedHtml.latexCode) :
         LET name == Basename(PathAt(renderedHtml.latexCode, m))
         IN  (MatchesNoKey(renderedHtml.assetMap, name) /\ InheritedAt(name) = <<>>)
                => MarkerStandsFor(m, name)

\* A basename that matches no asset key and names an inherited property
\* is shown as an image whose source is the text of that property.
InheritedShownAsImage ==
    renderedHtml.run =>
      \A m \in DirectivesOf(renderedHtml.latexCode) :
         LET name == Basename(PathAt(renderedHtml.latexCode, m))
             p    == ElementFor(renderedHtml.latexCode, renderedHtml.text, m)
         IN  (MatchesNoKey(renderedHtml.assetMap, name) /\ InheritedAt(name) # <<>>)
                => /\ renderedHtml.text[p] = ImageTagOpen
                   /\ SubSeq(renderedHtml.text, p + 1, p + Len(InheritedAt(name)))
                         = InheritedAt(name)

\* The asset the stated order selects: the exact key, the key with an
\* image extension appended, then the first key that contains the name.
StatedSrc(assets, name) ==
    IF OwnAssetAt(assets, name) # <<>> THEN OwnAssetAt(assets, name)
    ELSE IF OwnAssetAt(assets, name \o <<".png">>) # <<>>
         THEN OwnAssetAt(assets, name \o <<".png">>)
    ELSE IF OwnAssetAt(assets, name \o <<".jpg">>) # <<>>
         THEN OwnAssetAt(assets, name \o <<".jpg">>)
    ELSE IF OwnAssetAt(assets, name \o <<".jpeg">>) # <<>>
         THEN OwnAssetAt(assets, name \o <<".jpeg">>)
    ELSE FirstKeyIncluding(assets, name)

\* C8: every directive shows the asset the stated order selects: exact key,
\* then key plus extension, then the first key containing the basename.
C8_LookupOrder ==
    renderedHtml.run =>
      \A m \in DirectivesOf(renderedHtml.latexCode) :
         LET name == Basename(PathAt(renderedHtml.latexCode, m))
             src  == StatedSrc(renderedHtml.assetMap, name)
             p    == ElementFor(renderedHtml.latexCode, renderedHtml.text, m)
         IN  src # <<>> =>
                /\ renderedHtml.text[p] = ImageTagOpen
                /\ <<renderedHtml.text[p + 1]>> = src

\* The steps before the substring pass: an exact key or a key with an
\* extension appended is what the directive shows.
EarlierStepsWin ==
    renderedHtml.run =>
      \A m \in DirectivesOf(renderedHtml.latexCode) :
         LET name == Basename(PathAt(renderedHtml.latexCode, m))
             p    == ElementFor(renderedHtml.latexCode, renderedHtml.text, m)
         IN  \/ \E i \in 1..Len(renderedHtml.assetMap) : renderedHtml.assetMap[i].key = name
             \/ \E i \in 1..Len(renderedHtml.assetMap) :
                   renderedHtml.assetMap[i].key \in {name \o <<".png">>, name \o <<".jpg">>,
                                             name \o <<".jpeg">>}
             => <<renderedHtml.text[p + 1]>> = StatedSrc(renderedHtml.assetMap, name)

(***************************************************************************)
(* Math: documents of up to MaxSpans pieces separated by blanks, each an   *)
(* inline span, a display span of either spelling or a word; the i-th span *)
(* has the source "m<i>".  katex.renderToString throws on any subset of    *)
(* the sources of the document.                                            *)
(***************************************************************************)
MaxSpans == 3

MathPieces == {"inline", "dollars", "brackets", "word"}

MathSource(i) == "m" \o ToString(i)

MathPiece(kind, i) ==
    CASE kind = "inline"   -> <<"$", MathSource(i), "$", " ">>
      [] kind = "dollars"  -> <<"$", "$", MathSource(i), "$", "$", " ">>
      [] kind = "brackets" -> <<"\\[", MathSource(i), "\\]", " ">>
      [] kind = "word"     -> <<"w" \o ToString(i), " ">>

MathDocument(kinds) ==
    Flatten([i \in 1..Len(kinds) |-> MathPiece(kinds[i], i)], Len(kinds))

InitMath ==
    \E n \in 0..MaxSpans : \E kinds \in [1..n -> MathPieces] :
       /\ Mounted(<<DocumentProject(MathDocument(kinds), <<>>)>>, NotWritten)
       /\ katexThrows \in SUBSET {<<MathSource(i)>> : i \in
                                     {j \in 1..n : kinds[j] # "word"}}

SpecMath == InitMath /\ [][NextPreview]_vars

(***************************************************************************)
(* Properties of the math stage.                                           *)
(***************************************************************************)
\* The math spans of a source from index i on, read from left to right
\* with the display delimiters tried before the inline one: the set of
\* their sources.
RECURSIVE MathSpansFrom(_, _)
MathSpansFrom(src, i) ==
    IF i > Len(src) THEN {}
    ELSE IF /\ OccursAt(src, <<"$", "$">>, i)
            /\ NextOccurrence(src, <<"$", "$">>, i + 2) # 0
    THEN LET k == NextOccurrence(src, <<"$", "$">>, i + 2)
         IN  {SubSeq(src, i + 2, k - 1)} \cup MathSpansFrom(src, k + 2)
    ELSE IF src[i] = "\\[" /\ IndexFrom(src, "\\]", i + 1) # 0
    THEN LET k == IndexFrom(src, "\\]", i + 1)
         IN  {SubSeq(src, i + 1, k - 1)} \cup MathSpansFrom(src, k + 1)
    ELSE IF src[i] = "$" /\ IndexFrom(src, "$", i + 1) > i + 1
    THEN LET k == IndexFrom(src, "$", i + 1)
         IN  {SubSeq(src, i + 1, k - 1)} \cup MathSpansFrom(src, k + 1)
    ELSE MathSpansFrom(src, i + 1)

MathSpansOf(src) == MathSpansFrom(src, 1)

IsTypeset(out, math) ==
    \/ Includes(out, KatexHtml(math, FALSE))
    \/ Includes(out, KatexHtml(math, TRUE))

IsFallback(out, math) ==
    \/ Includes(out, <<"<span class=\"font-mono text-xs bg-yellow-50\">">>
                        \o math \o <<"</span>">>)
    \/ Includes(out, <<"<div class=\"font-mono text-xs bg-yellow-50 p-2\">">>
                        \o math \o <<"</div>">>)

\* C6: when the typesetting call fails on a span of the document, the
\* rendering is completed, that span shows its source in the fallback style
\* and every other span shows its typeset output.
C6_MathFaultIsolation ==
    (renderedHtml.run /\ katexThrows # {}) =>
       \A math \in MathSpansOf(compiledContent) :
          IF math \in katexThrows
          THEN IsFallback(renderedHtml.text, math)
          ELSE IsTypeset(renderedHtml.text, math)

\* The same statement for the documents without a $$...$$ span.
FaultIsolationWithoutDollars ==
    (renderedHtml.run /\ katexThrows # {}
        /\ ~Includes(compiledContent, <<"$", "$">>)) =>
       \A math \in MathSpansOf(compiledContent) :
          IF math \in katexThrows
          THEN IsFallback(renderedHtml.text, math)
          ELSE IsTypeset(renderedHtml.text, math)

\* The display spans of a source from index i on, read from left to right:
\* the set of the sources between $$ and $$ and between \[ and \].
RECURSIVE DisplaySpansFrom(_, _)
DisplaySpansFrom(src, i) ==
    IF i > Len(src) THEN {}
    ELSE IF /\ OccursAt(src, <<"$", "$">>, i)
            /\ NextOccurrence(src, <<"$", "$">>, i + 2) # 0
    THEN LET k == NextOccurrence(src, <<"$", "$">>, i + 2)
         IN  {SubSeq(src, i + 2, k - 1)} \cup DisplaySpansFrom(src, k + 2)
    ELSE IF src[i] = "\\[" /\ IndexFrom(src, "\\]", i + 1) # 0
    THEN LET k == IndexFrom(src, "\\]", i + 1)
         IN  {SubSeq(src, i + 1, k - 1)} \cup DisplaySpansFrom(src, k + 1)
    ELSE IF src[i] = "$" /\ IndexFrom(src, "$", i + 1) > i + 1
    THEN DisplaySpansFrom(src, IndexFrom(src, "$", i + 1) + 1)
    ELSE DisplaySpansFrom(src, i + 1)

DisplaySpansOf(src) == DisplaySpansFrom(src, 1)

\* C22: the display spans of the document are matched before its inline
\* spans: every $$...$$ and \[...\] span of the document is rendered in
\* display mode, its content never taken for an inline span.
C22_DisplayBeforeInline ==
    renderedHtml.run =>
       \A math \in DisplaySpansOf(compiledContent) :
          /\ Includes(renderedHtml.text, DisplayMath(math, katexThrows))
          /\ ~Includes(renderedHtml.text, InlineMath(math, katexThrows))

\* The same statement for the documents whose display spans are all written
\* with \[...\].
BracketSpansInDisplayMode ==
    (renderedHtml.run /\ ~Includes(compiledContent, <<"$", "$">>)) =>
       \A math \in DisplaySpansOf(compiledContent) :
          /\ Includes(renderedHtml.text, DisplayMath(math, katexThrows))
          /\ ~Includes(renderedHtml.text, InlineMath(math, katexThrows))

(***************************************************************************)
(* The order of the stages.  The documents are up to MaxStagePieces pieces,*)
(* a piece a word or a section heading whose title is a word, a bold word  *)
(* or a picture.                                                           *)
(***************************************************************************)
MaxStagePieces == 3

StagePieces == {"plain", "bold", "image", "word"}

StagePiece(kind, i) ==
    CASE kind = "plain" -> <<"\\section", "{", HeadingTitle(i), "}", "\n">>
      [] kind = "bold"  -> <<"\\section", "{", "\\textbf", "{", HeadingTitle(i),
                             "}", "}", "\n">>
      [] kind = "image" -> <<"\\section", "{", "\\includegraphics", "{", "k",
                             "}", "}", "\n">>
      [] kind = "word"  -> <<"w" \o ToString(i), "\n">>

StageDocument(kinds) ==
    Flatten([i \in 1..Len(kinds) |-> StagePiece(kinds[i], i)], Len(kinds))

InitStages ==
    /\ \E n \in 0..MaxStagePieces : \E kinds \in [1..n -> StagePieces] :
          Mounted(<<DocumentProject(StageDocument(kinds), <<>>)>>, NotWritten)
    /\ katexThrows = {}

SpecStages == InitStages /\ [][NextPreview]_vars

\* The stages after the Import Resolver composed in the stated order:
\* Stripper (1-3), Structural Transformer (9), Environment Handler (4, 10,
\* 11), Formatter (5-7, 12), Asset Binder (8), Math Renderer (13).
StatedOrder(code, assets, throws) ==
    IF code = <<>> THEN <<>>
    ELSE CHOOSE processed \in
           {Math(s12, throws) : s12 \in
           {Images(s11, assets) : s11 \in
           {SpecialCharacters(s10) : s10 \in
           {FontSizes(s9) : s9 \in
           {FontStyles(s8) : s8 \in
           {Layout(s7) : s7 \in
           {Abstract(s6) : s6 \in
           {Lists(s5) : s5 \in
           {Minipages(s4) : s4 \in
           {Structure(s3) : s3 \in
           {RemoveSetup(s2) : s2 \in
           {ExtractBody(s1) : s1 \in
           {CleanComments(code)}}}}}}}}}}}}} : TRUE

\* C21: the stages run in the order Stripper, Structural Transformer,
\* Environment Handler, Formatter, Asset Binder, Math Renderer: the output
\* is that of the stages composed in this order, headings transformed
\* before text formatting and before image binding.
C21_StageOrder ==
    renderedHtml.run =>
       renderedHtml.text = StatedOrder(compiledContent, previewAssets, katexThrows)

\* The same statement for the documents whose heading titles are plain
\* words, on which the two orders agree.
StageOrderWithPlainTitles ==
    (renderedHtml.run
        /\ ~Includes(compiledContent, <<"{", "\\textbf">>)
        /\ ~Includes(compiledContent, <<"{", "\\includegraphics">>)) =>
       renderedHtml.text = StatedOrder(compiledContent, previewAssets, katexThrows)

(***************************************************************************)
(* Lists.  The documents are one itemize or enumerate block of up to       *)
(* MaxItems items: an item written on a line of its own, an item whose     *)
(* content goes on in a second line, or an item followed on the same line  *)
(* by what comes next.                                                     *)
(***************************************************************************)
MaxItems == 3

ListKinds == {"itemize", "enumerate"}

ItemForms == {"line", "two lines", "same line"}

ItemPiece(form, i) ==
    CASE form = "line"      -> <<"\\item", " ", "w" \o ToString(i), "\n">>
      [] form = "two lines" -> <<"\\item", " ", "w" \o ToString(i), "\n",
                                 "v" \o ToString(i), "\n">>
      [] form = "same line" -> <<"\\item", " ", "w" \o ToString(i), " ">>

ListDocument(kind, forms) ==
    <<"\\begin{" \o kind \o "}", "\n">>
       \o Flatten([i \in 1..Len(forms) |-> ItemPiece(forms[i], i)], Len(forms))
       \o <<"\\end{" \o kind \o "}", "\n">>

InitLists ==
    /\ \E kind \in ListKinds : \E n \in 0..MaxItems :
          \E forms \in [1..n -> ItemForms] :
             Mounted(<<DocumentProject(ListDocument(kind, forms), <<>>)>>, NotWritten)
    /\ katexThrows = {}

SpecLists == InitLists /\ [][NextPreview]_vars

NotWhite(lexeme) == lexeme \notin WhiteSpace

ListEndMarkers == {"\\end{" \o kind \o "}" : kind \in ListKinds}

ItemMarkers(src) == {m \in 1..Len(src) : src[m] = "\\item"}

\* The words of the source between the item marker at m and the next item
\* marker or list end marker.
ItemContent(src, m) ==
    LET next == MinOf({j \in (m + 1)..Len(src) :
                         src[j] \in {"\\item"} \cup ListEndMarkers})
    IN  SelectSeq(SubSeq(src, m + 1, next - 1), NotWhite)

ListEntries(out) == {m \in 1..Len(out) : out[m] = "<li>"}

\* The words of the list entry of the output that opens at m.
ListEntryAt(out, m) ==
    SelectSeq(SubSeq(out, m + 1, IndexFrom(out, "</li>", m + 1) - 1), NotWhite)

\* C25: every item marker of a list block becomes one list entry, whose
\* content is the text from the marker to the next item marker or to the
\* end marker of the list.
C25_OneEntryPerItem ==
    renderedHtml.run =>
       LET src     == compiledContent
           out     == renderedHtml.text
           markers == ItemMarkers(src)
           entries == ListEntries(out)
       IN  /\ Cardinality(entries) = Cardinality(markers)
           /\ \A n \in 1..Cardinality(markers) :
                 ListEntryAt(out, NthOf(entries, n)) =
                    ItemContent(src, NthOf(markers, n))

\* The same statement for the lists whose items are each written on a line
\* of their own.
OneEntryPerItemLine ==
    (renderedHtml.run
        /\ \A m \in ItemMarkers(compiledContent) :
              /\ compiledContent[m + 3] = "\n"
              /\ compiledContent[m + 4] \in {"\\item"} \cup ListEndMarkers) =>
       LET src     == compiledContent
           out     == renderedHtml.text
           markers == ItemMarkers(src)
           entries == ListEntries(out)
       IN  /\ Cardinality(entries) = Cardinality(markers)
           /\ \A n \in 1..Cardinality(markers) :
                 ListEntryAt(out, NthOf(entries, n)) =
                    ItemContent(src, NthOf(markers, n))

Init ==
    /\ Mounted(SessionProjects, NotWritten)
    /\ katexThrows = {}

Next ==
    \/ LoadSettles(TRUE)
    \/ \E i \in 1..Len(projects) : handleOpenProject(projects[i].id)
    \/ BackToDashboard
    \/ \E id \in ShownIds("file") : SelectFile(id)
    \/ \E newContent \in EditorTexts : MayType /\ handleFileChange(newContent)
    \/ handleRecompile
    \/ CompileTimeout
    \/ PreviewTimeout

\* The session of the editor over SessionProjects.  The timer and the
\* requests of the persistence hook, which change status, stored, saveTimer
\* and saveRequests alone, run in SpecSaves.
Spec == Init /\ [][Next]_vars

InitWorkspace ==
    /\ Mounted(WorkspaceProjects, NotWritten)
    /\ katexThrows = {}

\* The App mounted in a browser that has stored no list, or the list of
\* the bin.
InitSaves ==
    /\ \E local \in {NotWritten, [written |-> TRUE, list |-> WorkspaceProjects]} :
          Mounted(WorkspaceProjects, local)
    /\ katexThrows = {}

\* The session of the persistence hook: the editor types and toggles a
\* folder, the dashboard creates and deletes projects, and the timer and
\* the requests of the hook run.
NextSaves ==
    \/ \E ok \in BOOLEAN : LoadSettles(ok)
    \/ \E i \in 1..Len(projects) : handleOpenProject(projects[i].id)
    \/ BackToDashboard
    \/ \E newContent \in EditorTexts : MayType /\ handleFileChange(newContent)
    \/ PreviewTimeout
    \/ \E id \in ShownIds("folder") : handleToggleFolder(id)
    \/ handleCreateProject
    \/ \E i \in 1..Len(projects) : handleDeleteProject(projects[i].id)
    \/ SaveTimeout
    \/ \E ok \in BOOLEAN : SaveSettles(ok)

SpecSaves == InitSaves /\ [][NextSaves]_vars

\* The session of the AI panel: the editor selects files, types and asks the
\* AI, and the requests settle.
NextAssistant ==
    \/ LoadSettles(TRUE)
    \/ \E i \in 1..Len(projects) : handleOpenProject(projects[i].id)
    \/ BackToDashboard
    \/ \E id \in ShownIds("file") : SelectFile(id)
    \/ \E newContent \in EditorTexts : MayType /\ handleFileChange(newContent)
    \/ PreviewTimeout
    \/ \E call \in AICalls : MayAsk /\ handleAIAction(call[1], call[2])
    \/ \E ok \in BOOLEAN, response \in AIReplies : AIResponds(ok, response)
    \/ SaveTimeout
    \/ \E ok \in BOOLEAN : SaveSettles(ok)

SpecAssistant == InitWorkspace /\ [][NextAssistant]_vars

\* The session of the dashboard: it creates, imports, opens and deletes
\* projects, and the readers and the timer of the import run.  Its saves are
\* immediate ones, so the debounce timer is never set.
NextDashboard ==
    \/ LoadSettles(TRUE)
    \/ \E i \in 1..Len(projects) : handleOpenProject(projects[i].id)
    \/ BackToDashboard
    \/ PreviewTimeout
    \/ handleCreateProject
    \/ \E fileList \in ImportLists : handleImportProject(fileList)
    \/ \E reader \in fileReaders : FileLoaded(reader)
    \/ ImportTimeout
    \/ \E i \in 1..Len(projects) : handleDeleteProject(projects[i].id)
    \/ \E ok \in BOOLEAN : SaveSettles(ok)

SpecDashboard == InitWorkspace /\ [][NextDashboard]_vars

\* The step in which the callback of the pending setTimeout runs: of the
\* actions of Next, CompileTimeout alone clears the timer.
TimerFires == compileTimer.pending /\ compileTimer' = NoTimer

\* A timer that was set fires: the callback runs 600 ms after
\* handleRecompile has set it.
FairSpec == Spec /\ WF_compileTimer(TimerFires)

(***************************************************************************)
(* Properties of the recompile handler.                                    *)
(***************************************************************************)
\* The step in which the pending pass publishes its result.
Publishes == compileTimer.pending /\ ~compileTimer'.pending

\* The project the pending pass was started on has no .tex file.
NoTexFile ==
    \A i \in 1..Len(compileTimer.allFiles) : ~IsTex(compileTimer.allFiles[i].name)

\* C4: a pass over a project without a .tex file runs no stage (the
\* resolver is not called), publishes exactly one diagnostic, an error,
\* and leaves the rendered output empty.
C4_NoEntryNoOutput ==
    [][(Publishes /\ NoTexFile) =>
          /\ resolved' = resolved
          /\ logs' = <<ErrorLog>>
          /\ compiledContent' = <<>>]_vars

\* The first two parts of that statement alone.
NoEntryOneError ==
    [][(Publishes /\ NoTexFile) =>
          /\ resolved' = resolved
          /\ logs' = <<ErrorLog>>]_vars

\* What a pass leaves when it has published: the flag is down and the log
\* holds exactly one diagnostic, either an error or the diagnostic of the
\* resolved text that is now the content of the preview.
WellFormedResult ==
    /\ ~isCompiling
    /\ Len(logs) = 1
    /\ \/ logs[1].type = "error"
       \/ /\ logs[1].type \in {"info", "warning"}
          /\ resolved.run
          /\ compiledContent = resolved.text

\* C5: every pass that was started completes: the compiling flag returns to
\* false with a well-formed result published, whatever the files are.
C5_CompileCompletes == isCompiling ~> WellFormedResult

\* A pass over the project with the inclusion cycle has published.
C5_Witness ==
    /\ WellFormedResult
    /\ logs[1].type = "info"
    /\ Includes(compiledContent, LoopText)
    /\ previewAssets # <<>>

\* The pending pass has an entry file: the search of handleRecompile found
\* main.tex, the selected .tex file or the first .tex file.
EntryFound == compileTimer.mainFile # NoFile

\* The diagnostic the claim gives a pass over the entry file: a warning
\* that names the entry when the resolved text has no document class, an
\* informational entry otherwise.
StatedDiagnostic ==
    LET mainFile == compileTimer.mainFile
        text     == resolveLatexImports(mainFile.content, compileTimer.fileMap).text
    IN  IF ~Includes(text, <<"\\documentclass">>)
        THEN <<WarningLog(mainFile)>>
        ELSE <<InfoLog>>

\* C11: after every pass that has found an entry file the log holds
\* exactly one entry, the warning that names the entry file when the
\* resolved text has no document-class declaration and the informational
\* entry otherwise.
C11_OneDiagnostic ==
    [][(Publishes /\ EntryFound) => logs' = StatedDiagnostic]_vars

\* The same statement for the entry files that have content.
EntryWithContentOneDiagnostic ==
    [][(Publishes /\ EntryFound /\ compileTimer.mainFile.content # <<>>)
          => logs' = StatedDiagnostic]_vars

\* What the pending pass produces: the resolved text of its entry and the
\* images of its snapshot, or nothing when it has no entry to compile.
ResultOfPass ==
    LET mainFile == compileTimer.mainFile
    IN  IF mainFile # NoFile /\ mainFile.content # <<>>
        THEN [content |-> resolveLatexImports(mainFile.content,
                                              compileTimer.fileMap).text,
              assets  |-> ExtractAssets(compileTimer.allFiles,
                                        Len(compileTimer.allFiles))]
        ELSE [content |-> <<>>, assets |-> <<>>]

\* C12: a pass replaces the result of the pass before it entirely: when a
\* pass publishes after an earlier pass has produced a result, the content
\* and the assets handed to the preview and the diagnostics are those of
\* this pass alone.
C12_PassReplacesResult ==
    [][(Publishes /\ resolved.run) =>
          /\ compiledContent' = ResultOfPass.content
          /\ previewAssets' = ResultOfPass.assets
          /\ Len(logs') = 1]_vars

\* The diagnostics are replaced by every pass, and so are the content and
\* the assets by every pass that compiles an entry.
CompilingPassReplacesResult ==
    [][Publishes =>
          /\ Len(logs') = 1
          /\ (compileTimer.mainFile # NoFile /\ compileTimer.mainFile.content # <<>>)
                => /\ compiledContent' = ResultOfPass.content
                   /\ previewAssets' = ResultOfPass.assets]_vars

\* The words of the two inline markers.
LoopWords == <<" Recursive loop detected: ">>

MissingWords == <<" Missing file: ">>

\* C13: an inclusion cycle and a missing include each leave their marker
\* in the rendered document: when the text that was rendered holds a
\* marker of the resolver, the html holds the marker's words.
C13_MarkersRendered ==
    renderedHtml.run =>
       /\ Includes(renderedHtml.latexCode, LoopText)
             => Includes(renderedHtml.text, LoopWords)
       /\ Includes(renderedHtml.latexCode, MissingText)
             => Includes(renderedHtml.text, MissingWords)

\* The running text of the session's files.
RunningText == {"a0", "a1", "b0", "b1", "c0", "c1", "d0", "e0", "f0", "z0", "z1"}

\* The rest of such a document is rendered: every piece of running text of
\* the resolved text is in the html.
RestOfDocumentRendered ==
    (renderedHtml.run
        /\ \/ Includes(renderedHtml.latexCode, LoopText)
           \/ Includes(renderedHtml.latexCode, MissingText))
      => \A w \in RunningText :
            Includes(renderedHtml.latexCode, <<w>>) => Includes(renderedHtml.text, <<w>>)

\* The step in which the callback of the Preview's timer renders.
PreviewFires == previewTimer.pending /\ ~previewTimer'.pending /\ renderedHtml'.run

\* The pending rendering is of the props that were rendered last.
SameSnapshot ==
    /\ previewTimer.pending
    /\ renderedHtml.run
    /\ previewTimer.latexCode = renderedHtml.latexCode
    /\ previewTimer.assetMap = renderedHtml.assetMap

\* The labels of an html count from one: the chapter headings that carry a
\* label are labelled 1, 2, ... in the order of the html, and so are the
\* section headings that carry a label without a chapter number.
NumberedFromOne(out) ==
    LET h1       == "<h1 class=\"text-3xl font-bold mt-8 mb-6 border-b pb-2\">"
        h2       == "<h2 class=\"text-2xl font-bold mt-6 mb-4 text-slate-800\">"
        chapters == {q \in 1..(Len(out) - 2) : out[q] = h1 /\ out[q + 2] = ". "}
        sections == {q \in 1..(Len(out) - 2) : out[q] = h2 /\ out[q + 2] = " "}
    IN  /\ \A q \in chapters :
              out[q + 1] = ToString(Cardinality({r \in chapters : r <= q}))
        /\ \A q \in sections :
              out[q + 1] = ToString(Cardinality({r \in sections : r <= q}))

\* C14: every rendering labels its headings from one, whatever the
\* rendering before it, in this or an earlier opening of the editor, has
\* counted, and a rendering of the text and assets that were rendered last
\* gives the html that was rendered last.
C14_SameSnapshotSameOutput ==
    [][PreviewFires =>
          /\ NumberedFromOne(renderedHtml'.text)
          /\ SameSnapshot => renderedHtml'.text = renderedHtml.text]_vars

\* A compiled text with numbered headings was rendered and the same text
\* and assets, published by a second pass, are about to be rendered again.
C14_Witness ==
    /\ SameSnapshot
    /\ resolved.run
    /\ previewTimer.latexCode = resolved.text
    /\ Includes(renderedHtml.text, <<"1", " ", "s0">>)
    /\ Includes(renderedHtml.text, <<"2", " ", "s0">>)

\* C15: at most one pass is in flight: handleRecompile does not start a
\* pass while the timer of an earlier pass is pending.
C15_OnePassInFlight == [][handleRecompile => ~compileTimer.pending]_vars

\* A pass is in flight while the editor, with its Recompile button, is
\* shown: after the pass was started, the user has left the editor and
\* come back, or has selected another file.
C15_Witness ==
    /\ compileTimer.pending
    /\ isCompiling
    /\ view = "editor"
    /\ compileTimer.mainFile # MainFile(FindProject(activeProjectId).files,
                                        activeFileId)

\* The step of an edit: handleFileChange ran for a text the editor typed.
Edits == \E newContent \in EditorTexts : handleFileChange(newContent)

\* C16: an edit schedules a pass over the latest source: after the step of
\* an edit a compile pass over the project as edited, or a rendering of the
\* edited text, is pending.
C16_EditSchedulesPass ==
    [][Edits =>
          LET latest == FindProject(activeProjectId)'.files
          IN  \/ /\ compileTimer'.pending
                 /\ compileTimer'.allFiles = latest
              \/ /\ previewTimer'.pending
                 /\ previewTimer'.latexCode = findNode(latest, activeFileId).content]_vars

\* What an edit does leave alone: the timers of the pass and of the
\* Preview and the text handed to the Preview.
EditLeavesTimers ==
    [][Edits => UNCHANGED <<compileTimer, previewTimer, compiledContent,
                           previewAssets>>]_vars

\* What the interval of the Preview's effect does for the props: a pending
\* rendering is over the latest props, and when none is pending in the
\* editor the html is the one rendering of the latest props.
PreviewRendersLatestProps ==
    /\ previewTimer.pending =>
          /\ previewTimer.latexCode = compiledContent
          /\ previewTimer.assetMap = previewAssets
    /\ (view = "editor" /\ ~previewTimer.pending) =>
          /\ renderedHtml.run
          /\ renderedHtml.latexCode = compiledContent
          /\ renderedHtml.assetMap = previewAssets

\* C23: the result of a pass is published in one step: when a pass
\* publishes in the editor, its diagnostics and its cleared compiling flag
\* are shown with the rendered output of this pass, never with the output
\* rendered for an earlier pass.  The steps looked at are the publications
\* in an editor that shows the rendering of an earlier pass.
C23_AtomicPublication ==
    [][(Publishes /\ view = "editor" /\ resolved.run /\ renderedHtml.run
           /\ renderedHtml.latexCode = resolved.text) =>
          /\ ~isCompiling'
          /\ Len(logs') = 1
          /\ renderedHtml'.run
          /\ renderedHtml'.latexCode = ResultOfPass.content
          /\ renderedHtml'.assetMap = ResultOfPass.assets]_vars

\* What the pass does publish in one step: the flag, the diagnostics and,
\* when it compiled an entry, the text and the assets handed to the Preview,
\* whose rendering is then pending.
PublishesPropsInOneStep ==
    [][(Publishes /\ view = "editor") =>
          /\ ~isCompiling'
          /\ Len(logs') = 1
          /\ (compileTimer.mainFile # NoFile /\ compileTimer.mainFile.content # <<>>)
                => /\ compiledContent' = ResultOfPass.content
                   /\ previewAssets' = ResultOfPass.assets
                   /\ previewTimer'.pending
                   /\ previewTimer'.latexCode = ResultOfPass.content
                   /\ previewTimer'.assetMap = ResultOfPass.assets]_vars

\* handleRecompile has taken a step.
Triggers == ~compileTimer.pending /\ compileTimer'.pending

\* C24: a pass works on one snapshot of the project, taken when it is
\* triggered: the entry, the file map and the files are those of the project
\* at the trigger, no step changes them while the pass is pending, and the
\* pass publishes the resolution of this entry over this file map and the
\* assets of these files, whatever was edited in between.
C24_OneSnapshot ==
    /\ [][Triggers =>
             LET project == FindProject(activeProjectId)
                 fm      == flattenProjectFiles(Root(project), <<>>)
             IN  /\ compileTimer'.allFiles = fm
                 /\ compileTimer'.fileMap = fm
                 /\ compileTimer'.mainFile =
                       MainFile(project.files, activeFileId)]_vars
    /\ [][(compileTimer.pending /\ compileTimer'.pending) =>
             compileTimer' = compileTimer]_vars
    /\ [][(Publishes /\ compileTimer.mainFile # NoFile
                     /\ compileTimer.mainFile.content # <<>>) =>
             /\ compiledContent' = ResultOfPass.content
             /\ previewAssets' = ResultOfPass.assets]_vars

\* A pass is pending on a snapshot that holds an included file of the
\* project as it was before an edit made since the trigger.
C24_Witness ==
    /\ compileTimer.pending
    /\ compileTimer.mainFile # NoFile
    /\ FindProject(activeProjectId) # Undefined
    /\ compileTimer.mainFile \in NodesOf(FindProject(activeProjectId).files)
    /\ compileTimer.fileMap #
          flattenProjectFiles(Root(FindProject(activeProjectId)), <<>>)

(***************************************************************************)
(* Properties of the persistence hook.                                     *)
(***************************************************************************)
\* C28: whenever the sync status is "saved", no debounced save is pending
\* and the list written to storage last is the current list of projects.
C28_SavedMeansStored ==
    status = "saved" =>
       /\ ~saveTimer
       /\ stored.written => stored.list = projects

\* What the storage holds without regard to the status: once the load has
\* settled, a step that changes the list or the storage and leaves no
\* debounced save pending leaves the current list in storage.
NoTimerMeansStored ==
    [][(~load.pending /\ ~saveTimer'
           /\ (projects' # projects \/ stored' # stored)) =>
          (stored'.written /\ stored'.list = projects')]_vars

(***************************************************************************)
(* Properties of the AI panel.                                             *)
(***************************************************************************)
\* The files of a list of projects, each with the id of its project.
FilesOf(seen) ==
    UNION {{<<seen[i].id, n>> : n \in {m \in NodesOf(seen[i].files) : m.type = "file"}} :
             i \in 1..Len(seen)}

\* The step in which the pending AI request ends.
AIEnds == aiRequest.pending /\ ~aiRequest'.pending

\* C27: no edit is lost to an AI request: a file that was edited while the
\* request was in flight, other than the file the request works on, holds
\* the edited content after the result of the request was applied.
C27_NoEditLost ==
    [][AIEnds =>
          \A f \in FilesOf(projects) :
             (f[2].id # aiRequest.activeFileId
                 /\ f \notin FilesOf(aiRequest.projects)) =>
                f \in FilesOf(projects')]_vars

\* When nothing was edited while the request was in flight, the result
\* changes the file the request works on and no other file.
AIChangesItsFileAlone ==
    [][(AIEnds /\ projects = aiRequest.projects) =>
          \A f \in FilesOf(projects) :
             f[2].id # aiRequest.activeFileId => f \in FilesOf(projects')]_vars

(***************************************************************************)
(* Properties of the dashboard.                                            *)
(***************************************************************************)
\* The step in which the callback of the import's timer runs.
ImportCompletes == importTimer.pending /\ ~importTimer'.pending

\* The step of handleCreateProject.
Creates == created' # created /\ importTimer' = importTimer

Ids(seen) == {seen[i].id : i \in 1..Len(seen)}

\* The names of the files of a tree.
FileNames(files) == {n.name : n \in {m \in NodesOf(files) : m.type = "file"}}

\* C29: when the import completes, every file selected for it is in the
\* imported project as it is added to the list and written to storage, and
\* the list holds every project that existed before the step.
C29_ImportKeepsFilesAndProjects ==
    [][ImportCompletes =>
          /\ \A reader \in fileReaders :
                /\ reader.file.name \in
                      FileNames(FindIn(projects', importTimer.newProjId).files)
                /\ reader.file.name \in
                      FileNames(FindIn(stored'.list, importTimer.newProjId).files)
          /\ Ids(projects) \subseteq Ids(projects')]_vars

\* What the completion does keep: the files loaded before the timer fired
\* and the projects of the list the dashboard showed when the import was
\* started.
ImportKeepsWhatItSaw ==
    [][ImportCompletes =>
          /\ FindIn(projects', importTimer.newProjId).files =
                FinalChildren(importTimer.rootChildren)
          /\ stored'.list = projects'
          /\ Ids(importTimer.projects) \subseteq Ids(projects')]_vars

\* C30: when a blank project was created or an import with files has
\* completed, the editor is open on the new project: the selected file is a
\* file of the new project and the text handed to the preview is the
\* content of its main file, not what was left by a project opened before.
\* The steps looked at are those taken after a project was opened.
C30_EditorOnNewProject ==
    [][((Creates \/ (ImportCompletes /\ importTimer.rootChildren # <<>>))
           /\ activeProjectId # NoProject) =>
          LET new == FindIn(projects', activeProjectId')
          IN  /\ view' = "editor"
              /\ new # Undefined
              /\ findNode(new.files, activeFileId') # NoFile
              /\ compiledContent' = ContentOf(OpenedFile(new.files))]_vars

\* The editor is opened on the new project with the selected file and the
\* text of the preview left as they were.
NewProjectKeepsOldSelection ==
    [][(Creates \/ ImportCompletes) =>
          /\ view' = "editor"
          /\ FindIn(projects', activeProjectId') # Undefined
          /\ activeFileId' = activeFileId
          /\ compiledContent' = compiledContent]_vars

\* The statement of C30 for a project opened from the list of the
\* dashboard, when the project has a file at the top of its tree.
EditorOnListedProject ==
    [][(view = "dashboard" /\ view' = "editor" /\ projects' = projects) =>
          LET opened == FindIn(projects', activeProjectId')
          IN  (opened # Undefined /\ OpenedFile(opened.files) # NoFile) =>
                 /\ findNode(opened.files, activeFileId') # NoFile
                 /\ ContentOf(OpenedFile(opened.files)) # <<>> =>
                        compiledContent' = ContentOf(OpenedFile(opened.files))]_vars

====
